---- MODULE Spec2Model ----
(***************************************************************************)
(* Credential store, status-list index allocator and KV substrate of the   *)
(* ssi-service.  Strings are sequences of one-character strings, so that   *)
(* prefix, suffix and substring tests on compound keys are computed as the *)
(* Go code computes them.  Byte blobs are JSON documents: a record with a  *)
(* kind ("nil", "array", "object") and a payload.                          *)
(***************************************************************************)
EXTENDS Integers, Sequences, FiniteSets, TLC

VARIABLES db, last, probe, kv, deleted, proc, cfg

\* what the calls of the credential store and of the KV substrate leave alone:
\* the deleted status entries, the request handlers, the loaded configuration
aux == <<deleted, proc, cfg>>

vars == <<db, last, probe, kv, deleted, proc, cfg>>

----------------------------------------------------------------------------
(* Bounds of the model *)

\* length of the status-list bitstring and of the index pool (the code's
\* bitStringLength, 131072, scaled down)
MaxL == 2
\* the cursor is an unbounded int in the code; the model stops incrementing
\* one past the end of the pool
MaxCursor == MaxL + 1
\* number of records the credential namespace holds at most
MaxCreds == 2
\* number of pieces the inputs of createPrefixKey are put together from
MaxPieces == 2
\* number of writes in a batch or in a transaction at most
MaxBatch == 2

----------------------------------------------------------------------------
(* Go's strings package *)

HasPrefix(k, p) == Len(p) <= Len(k) /\ SubSeq(k, 1, Len(p)) = p

HasSuffix(k, s) == Len(s) <= Len(k) /\ SubSeq(k, Len(k) - Len(s) + 1, Len(k)) = s

Occurrences(k, s) == {i \in 1..(Len(k) - Len(s) + 1) : SubSeq(k, i, i + Len(s) - 1) = s}

Contains(k, s) == Occurrences(k, s) # {}

\* the set of the elements of a sequence
Range(seq) == {seq[i] : i \in 1..Len(seq)}

RECURSIVE Join(_, _)
Join(parts, sep) ==
    IF Len(parts) = 0 THEN <<>>
    ELSE IF Len(parts) = 1 THEN parts[1]
    ELSE parts[1] \o sep \o Join(Tail(parts), sep)

----------------------------------------------------------------------------
(* Constants of the credential storage *)

credentialNamespace == "credential"
statusListCredentialNamespace == "status-list-credential"
statusListIndexNamespace == "status-list-index"

statusListIndexesKey ==
    <<"s", "t", "a", "t", "u", "s", "-", "l", "i", "s", "t", "-", "i", "n", "d", "e", "x", "e", "s">>
currentListIndexKey ==
    <<"c", "u", "r", "r", "e", "n", "t", "-", "l", "i", "s", "t", "-", "i", "n", "d", "e", "x">>

bitStringLength == MaxL

\* unique key for a credential
createPrefixKeyBroken(id, issuer, subject, schema) ==
    Join(<<id, <<"i", "s", ":">> \o issuer, <<"s", "c", ":">> \o schema>>, <<"-">>)

createPrefixKey(id, issuer, subject, schema) ==
    Join(<<id, <<"i", "s", ":">> \o issuer, <<"s", "u", ":">> \o subject,
           <<"s", "c", ":">> \o schema>>, <<"-">>)

----------------------------------------------------------------------------
(* Byte blobs and JSON *)

Nil == [kind |-> "nil"]

JSONArray(s) == [kind |-> "array", v |-> s]
JSONObject(f) == [kind |-> "object", v |-> f]

\* json.Marshal(StatusListIndex{Index: n})
MarshalStatusListIndex(n) == JSONObject([index |-> n])

\* json.Unmarshal(bytes, &statusListIndex): a missing field keeps the zero value
UnmarshalStatusListIndex(b) ==
    IF b.kind # "object" THEN [err |-> TRUE, Index |-> 0]
    ELSE [err |-> FALSE, Index |-> IF "index" \in DOMAIN b.v THEN b.v.index ELSE 0]

\* json.Unmarshal(bytes, &uniqueNums)
UnmarshalInts(b) ==
    IF b.kind # "array" THEN [err |-> TRUE, v |-> <<>>]
    ELSE [err |-> FALSE, v |-> b.v]

----------------------------------------------------------------------------
(* KV substrate (BoltDB): a database is a function from the existing       *)
(* buckets to functions from keys to blobs                                 *)

EmptyDB == [ns \in {} |-> Nil]

Bucket(d, ns) == IF ns \in DOMAIN d THEN d[ns] ELSE [k \in {} |-> Nil]

Keys(d, ns) == DOMAIN Bucket(d, ns)

\* writeFunc: CreateBucketIfNotExists, then Put
writeFunc(d, ns, key, value) ==
    [n \in DOMAIN d \cup {ns} |->
        IF n = ns
        THEN [k \in Keys(d, ns) \cup {key} |-> IF k = key THEN value ELSE d[ns][k]]
        ELSE d[n]]

\* BoltDB.Write
Write(d, ns, key, value) == writeFunc(d, ns, key, value)

\* BoltDB.Read: nil when the bucket or the key is absent
Read(d, ns, key) ==
    IF ns \in DOMAIN d /\ key \in DOMAIN d[ns] THEN d[ns][key] ELSE Nil

\* a prefix query that matches the prefix anywhere in the key
ReadPrefixContains(d, ns, prefix) ==
    [k \in {k \in Keys(d, ns) : Contains(k, prefix)} |-> d[ns][k]]

\* BoltDB.ReadPrefix: the map of the entries whose key starts with prefix
ReadPrefix(d, ns, prefix) ==
    [k \in {k \in Keys(d, ns) : HasPrefix(k, prefix)} |-> d[ns][k]]

\* BoltDB.ReadAllKeys
ReadAllKeys(d, ns) == Keys(d, ns)

\* BoltDB.Delete: an error when the bucket does not exist
Delete(d, ns, key) ==
    IF ns \notin DOMAIN d THEN [err |-> TRUE, db |-> d]
    ELSE [err |-> FALSE,
          db |-> [n \in DOMAIN d |->
                    IF n = ns THEN [k \in DOMAIN d[ns] \ {key} |-> d[ns][k]] ELSE d[n]]]

\* BoltDB.DeleteNamespace: tx.DeleteBucket removes the bucket with its keys,
\* an error when the bucket does not exist
DeleteNamespace(d, ns) ==
    IF ns \notin DOMAIN d THEN [err |-> TRUE, db |-> d]
    ELSE [err |-> FALSE, db |-> [n \in DOMAIN d \ {ns} |-> d[n]]]

\* the first n writes of a batch applied in order
RECURSIVE ApplyWrites(_, _, _)
ApplyWrites(d, wcs, n) ==
    IF n = 0 THEN d
    ELSE writeFunc(ApplyWrites(d, wcs, n - 1), wcs[n].namespace, wcs[n].key, wcs[n].value)

\* a batch whose failing Put leaves the earlier Puts in place
WriteManyPartial(d, wcs, failAt) ==
    IF failAt \in 1..Len(wcs)
    THEN [err |-> TRUE, db |-> ApplyWrites(d, wcs, failAt - 1)]
    ELSE [err |-> FALSE, db |-> ApplyWrites(d, wcs, Len(wcs))]

\* BoltDB.WriteMany: db.Update commits when every Put succeeded and rolls the
\* whole batch back when the Put of entry failAt returns an error (0: none fails)
WriteMany(d, wcs, failAt) ==
    IF failAt \in 1..Len(wcs)
    THEN [err |-> TRUE, db |-> d]
    ELSE [err |-> FALSE, db |-> ApplyWrites(d, wcs, Len(wcs))]

\* BoltDB.WriteMany on its three slices: err is "length" (the check of the
\* lengths), "panic" (keys[i] or values[i] out of range inside db.Update, which
\* rolls back) or "none"
WriteManySlices(d, namespaces, keys, values) ==
    IF Len(namespaces) # Len(keys) /\ Len(namespaces) # Len(values)
    THEN [err |-> "length", db |-> d]
    ELSE IF Len(keys) < Len(namespaces) \/ Len(values) < Len(namespaces)
    THEN [err |-> "panic", db |-> d]
    ELSE [err |-> "none",
          db |-> ApplyWrites(d, [i \in 1..Len(namespaces) |->
                                    [namespace |-> namespaces[i], key |-> keys[i],
                                     value |-> values[i]]],
                             Len(namespaces))]

\* a transaction that is committed however businessLogicFunc ends
ExecuteNoRollback(d, wcs, outcome, ctx) ==
    [err |-> outcome # "ok", db |-> ApplyWrites(d, wcs, Len(wcs))]

\* BoltDB.Execute: businessLogicFunc makes the writes wcs through boltTx.Write
\* and then returns a result (outcome "ok"), returns an error ("error") or
\* panics ("panic"); t.Commit() on "ok", t.Rollback() on the other two.  ctx
\* ("live" or "cancelled") is handed to businessLogicFunc; Execute does not
\* look at it, and boltTx.Write, which receives it, discards it
Execute(d, wcs, outcome, ctx) ==
    LET tx == ApplyWrites(d, wcs, Len(wcs))
    IN  IF outcome = "ok" THEN [err |-> FALSE, db |-> tx]
        ELSE [err |-> TRUE, db |-> d]

\* model[k] = val for the fields of g, on the JSON object f
Merge(f, g) == [k \in DOMAIN f \cup DOMAIN g |-> IF k \in DOMAIN g THEN g[k] ELSE f[k]]

\* an Updater: the field map of an UpdaterWithMap, and whether its Validate
\* accepts the stored data
Updater(values, valid) == [Values |-> values, valid |-> valid]

\* the integers up to which every integer is a float64 (2^53, scaled down)
MaxExact == 4

\* the float64 nearest to the non-negative integer n, ties to the even
\* mantissa: between MaxExact and 2 * MaxExact every second integer exists
Float64(n) ==
    IF n <= MaxExact THEN n
    ELSE IF n % 4 = 1 THEN n - 1
    ELSE IF n % 4 = 3 THEN n + 1
    ELSE n

\* the fields of the model's JSON objects that hold numbers
NumberFields == {"n", "m"}

\* json.Unmarshal(v, &model) with model a map[string]any: every JSON number
\* becomes a float64
UnmarshalMap(f) ==
    [k \in DOMAIN f |-> IF k \in NumberFields THEN Float64(f[k]) ELSE f[k]]

\* UpdaterWithMap.Update
UpdaterWithMapUpdate(u, v) ==
    IF v.kind # "object" THEN [err |-> TRUE, data |-> Nil]
    ELSE [err |-> FALSE, data |-> JSONObject(Merge(UnmarshalMap(v.v), u.Values))]

\* ResponseSettingUpdater.SetUpdatedResponse: the operation's updater takes
\* the updated value as the response it will store
SetUpdatedResponse(u, first) == [u EXCEPT !.Values = Merge(@, [response |-> first])]

\* updateTx, inside the transaction whose state is d
updateTx(d, ns, key, updater) ==
    LET v == Read(d, ns, key)
        u == UpdaterWithMapUpdate(updater, v)
    IN  IF ns \notin DOMAIN d \/ v = Nil \/ ~updater.valid \/ u.err
        THEN [err |-> TRUE, data |-> Nil, db |-> d]
        ELSE [err |-> FALSE, data |-> u.data, db |-> writeFunc(d, ns, key, u.data)]

\* BoltDB.Update: updateTx with NewUpdater(values), whose Validate accepts all
Update(d, ns, key, values) == updateTx(d, ns, key, Updater(values, TRUE))

\* an update whose first step stays when the second fails
UpdateValueAndOperationPartial(d, ns, key, updater, opNs, opKey, opUpdater) ==
    LET one == updateTx(d, ns, key, updater)
        two == updateTx(one.db, opNs, opKey, SetUpdatedResponse(opUpdater, one.data))
    IN  IF one.err THEN [err |-> TRUE, first |-> Nil, op |-> Nil, db |-> d]
        ELSE [err |-> two.err, first |-> one.data, op |-> two.data, db |-> two.db]

\* BoltDB.UpdateValueAndOperation: both updates in one db.Update, which rolls
\* back when either returns an error
UpdateValueAndOperation(d, ns, key, updater, opNs, opKey, opUpdater) ==
    LET one == updateTx(d, ns, key, updater)
        two == updateTx(one.db, opNs, opKey, SetUpdatedResponse(opUpdater, one.data))
    IN  IF one.err THEN [err |-> TRUE, first |-> Nil, op |-> Nil, db |-> d]
        ELSE IF two.err THEN [err |-> TRUE, first |-> one.data, op |-> Nil, db |-> d]
        ELSE [err |-> FALSE, first |-> one.data, op |-> two.data, db |-> two.db]

----------------------------------------------------------------------------
(* Credentials *)

\* credentialStatus == nil
NoStatus == [index |-> 0, list |-> <<>>]

\* a StatusList2021Entry: the revocation index and the status-list VC's id
StatusEntry(i, listID) == [index |-> i, list |-> listID]

\* the one issuance date of the model
Date == <<"d">>

\* *credential.VerifiableCredential == nil
NilVC == [nil |-> TRUE, id |-> <<>>, issuer |-> <<>>, subject |-> <<>>, schema |-> <<>>,
          issuanceDate |-> <<>>, status |-> NoStatus, proof |-> FALSE, encodedList |-> {}]

\* a verifiable credential; schema <<>> is CredentialSchema == nil; encodedList
\* is the set of the bit positions that are 1 (empty for a regular credential)
VerifiableCredential(id, issuer, subject, schema, status, proof, bits) ==
    [nil |-> FALSE, id |-> id, issuer |-> issuer, subject |-> subject, schema |-> schema,
     issuanceDate |-> Date, status |-> status, proof |-> proof, encodedList |-> bits]

\* *keyaccess.JWT == nil
NilJWT == [nil |-> TRUE, malformed |-> FALSE, vc |-> NilVC]

\* a compact JWS whose payload is the credential vc
JWT(vc, malformed) == [nil |-> FALSE, malformed |-> malformed, vc |-> vc]

\* signing.ParseVerifiableCredentialFromJWT: the payload, which carries no proof
ParseVerifiableCredentialFromJWT(token) ==
    IF token.malformed THEN [err |-> TRUE, vc |-> NilVC]
    ELSE [err |-> FALSE, vc |-> [token.vc EXCEPT !.proof = FALSE]]

\* credint.Container, embedded in StoreCredentialRequest
Container(id, cred, token, revoked) ==
    [ID |-> id, Credential |-> cred, CredentialJWT |-> token, Revoked |-> revoked]

HasDataIntegrityCredential(sc) == ~sc.Credential.nil /\ sc.Credential.proof

HasJWTCredential(sc) == ~sc.CredentialJWT.nil

\* a validity check that looks at the identifier alone
IsValidIDOnly(sc) == sc.ID # <<>>

IsValid(sc) == sc.ID # <<>> /\ (HasDataIntegrityCredential(sc) \/ HasJWTCredential(sc))

ZeroStoredCredential ==
    [ID |-> <<>>, CredentialID |-> <<>>, Credential |-> NilVC, CredentialJWT |-> NilJWT,
     Issuer |-> <<>>, Subject |-> <<>>, Schema |-> <<>>, IssuanceDate |-> <<>>,
     Revoked |-> FALSE]

\* buildStoredCredential: the denormalized record of a store request
buildStoredCredential(request) ==
    LET parsed == ParseVerifiableCredentialFromJWT(request.CredentialJWT)
        cred   == IF HasJWTCredential(request) THEN parsed.vc ELSE request.Credential
    IN  IF HasJWTCredential(request) /\ parsed.err
        THEN [err |-> TRUE, stored |-> ZeroStoredCredential]
        ELSE [err |-> FALSE,
              stored |->
                [ID |-> createPrefixKey(cred.id, cred.issuer, cred.subject, cred.schema),
                 CredentialID |-> cred.id,
                 Credential |-> cred,
                 CredentialJWT |-> request.CredentialJWT,
                 Issuer |-> cred.issuer,
                 Subject |-> cred.subject,
                 Schema |-> cred.schema,
                 IssuanceDate |-> cred.issuanceDate,
                 Revoked |-> request.Revoked]]

\* json.Marshal(storedCredential): credential and token are omitempty
MarshalStoredCredential(sc) ==
    LET fields == {"id", "credentialId", "issuer", "subject", "schema", "issuanceDate",
                   "revoked"}
                  \cup (IF sc.Credential.nil THEN {} ELSE {"credential"})
                  \cup (IF sc.CredentialJWT.nil THEN {} ELSE {"token"})
    IN  JSONObject([f \in fields |->
            CASE f = "id" -> sc.ID
              [] f = "credentialId" -> sc.CredentialID
              [] f = "credential" -> sc.Credential
              [] f = "token" -> sc.CredentialJWT
              [] f = "issuer" -> sc.Issuer
              [] f = "subject" -> sc.Subject
              [] f = "schema" -> sc.Schema
              [] f = "issuanceDate" -> sc.IssuanceDate
              [] f = "revoked" -> sc.Revoked])

\* json.Unmarshal(credBytes, &stored): an absent field keeps its zero value
UnmarshalStoredCredential(b) ==
    IF b.kind # "object" THEN [err |-> TRUE, stored |-> ZeroStoredCredential]
    ELSE LET has(f) == f \in DOMAIN b.v
         IN [err |-> FALSE,
             stored |->
               [ID |-> IF has("id") THEN b.v["id"] ELSE <<>>,
                CredentialID |-> IF has("credentialId") THEN b.v["credentialId"] ELSE <<>>,
                Credential |-> IF has("credential") THEN b.v["credential"] ELSE NilVC,
                CredentialJWT |-> IF has("token") THEN b.v["token"] ELSE NilJWT,
                Issuer |-> IF has("issuer") THEN b.v["issuer"] ELSE <<>>,
                Subject |-> IF has("subject") THEN b.v["subject"] ELSE <<>>,
                Schema |-> IF has("schema") THEN b.v["schema"] ELSE <<>>,
                IssuanceDate |-> IF has("issuanceDate") THEN b.v["issuanceDate"] ELSE <<>>,
                Revoked |-> IF has("revoked") THEN b.v["revoked"] ELSE FALSE]]

WriteContext(ns, key, value) == [namespace |-> ns, key |-> key, value |-> value]

NoWriteContext == WriteContext("", <<>>, Nil)

\* Storage.getStoreCredentialWriteContext
getStoreCredentialWriteContext(request, namespace) ==
    IF ~IsValid(request) THEN [err |-> TRUE, wc |-> NoWriteContext]
    ELSE LET built == buildStoredCredential(request)
         IN  IF built.err THEN [err |-> TRUE, wc |-> NoWriteContext]
             ELSE [err |-> FALSE,
                   wc |-> WriteContext(namespace, built.stored.ID,
                                       MarshalStoredCredential(built.stored))]

\* a put that also moves the cursor of the allocator
storeCredentialAdvancing(d, request, namespace) ==
    LET got == getStoreCredentialWriteContext(request, namespace)
        d1  == Write(d, got.wc.namespace, got.wc.key, got.wc.value)
    IN  IF got.err THEN [err |-> TRUE, db |-> d]
        ELSE [err |-> FALSE,
              db |-> Write(d1, statusListIndexNamespace, currentListIndexKey,
                           MarshalStatusListIndex(1))]

\* Storage.storeCredential: the record written under its compound key
storeCredential(d, request, namespace) ==
    LET got == getStoreCredentialWriteContext(request, namespace)
    IN  IF got.err THEN [err |-> TRUE, db |-> d]
        ELSE [err |-> FALSE, db |-> Write(d, got.wc.namespace, got.wc.key, got.wc.value)]

\* Storage.getCredential: err is "none", "ambiguous" (several keys start with
\* id), "notfound" or "unmarshal"
getCredential(d, id, namespace) ==
    LET prefixValues == ReadPrefix(d, namespace, id)
    IN  IF Cardinality(DOMAIN prefixValues) > 1
        THEN [err |-> "ambiguous", stored |-> ZeroStoredCredential]
        ELSE IF DOMAIN prefixValues = {} \/ (\A k \in DOMAIN prefixValues : prefixValues[k] = Nil)
        THEN [err |-> "notfound", stored |-> ZeroStoredCredential]
        ELSE LET credBytes == prefixValues[CHOOSE k \in DOMAIN prefixValues : TRUE]
                 got       == UnmarshalStoredCredential(credBytes)
             IN  IF got.err THEN [err |-> "unmarshal", stored |-> ZeroStoredCredential]
                 ELSE [err |-> "none", stored |-> got.stored]

\* credentialNotFoundErrMsg
credentialNotFoundErrMsg ==
    <<"c", "r", "e", "d", "e", "n", "t", "i", "a", "l", " ", "n", "o", "t",
      " ", "f", "o", "u", "n", "d">>

\* the texts of the errors of getCredential, each ending with the id (the
\* unmarshal error goes on with the text of the json error)
AmbiguousErrMsg ==
    <<"c", "o", "u", "l", "d", " ", "n", "o", "t", " ", "g", "e", "t", " ",
      "c", "r", "e", "d", "e", "n", "t", "i", "a", "l", " ", "f", "r", "o",
      "m", " ", "s", "t", "o", "r", "a", "g", "e", ";", " ", "m", "u", "l",
      "t", "i", "p", "l", "e", " ", "p", "r", "e", "f", "i", "x", " ", "v",
      "a", "l", "u", "e", "s", " ", "m", "a", "t", "c", "h", "e", "d", " ",
      "c", "r", "e", "d", "e", "n", "t", "i", "a", "l", " ", "i", "d", ":",
      " ">>

NotFoundErrMsg ==
    <<"c", "o", "u", "l", "d", " ", "n", "o", "t", " ", "g", "e", "t", " ",
      "c", "r", "e", "d", "e", "n", "t", "i", "a", "l", " ", "f", "r", "o",
      "m", " ", "s", "t", "o", "r", "a", "g", "e", " ", "c", "r", "e", "d",
      "e", "n", "t", "i", "a", "l", " ", "n", "o", "t", " ", "f", "o", "u",
      "n", "d", " ", "w", "i", "t", "h", " ", "i", "d", ":", " ">>

UnmarshalErrMsg ==
    <<"c", "o", "u", "l", "d", " ", "n", "o", "t", " ", "u", "n", "m", "a",
      "r", "s", "h", "a", "l", " ", "s", "t", "o", "r", "e", "d", " ", "c",
      "r", "e", "d", "e", "n", "t", "i", "a", "l", ":", " ">>

JSONErrMsg ==
    <<":", " ", "j", "s", "o", "n", ":", " ", "c", "a", "n", "n", "o", "t",
      " ", "u", "n", "m", "a", "r", "s", "h", "a", "l", " ", "v", "a", "l",
      "u", "e">>

\* err.Error() of the error that getCredential returns for id
getCredentialErrorText(err, id) ==
    CASE err = "ambiguous" -> AmbiguousErrMsg \o id
      [] err = "notfound" -> NotFoundErrMsg \o id
      [] err = "unmarshal" -> UnmarshalErrMsg \o id \o JSONErrMsg
      [] OTHER -> <<>>

\* Storage.deleteCredential up to the call of db.Delete: the lookup always
\* reads the credential namespace (cs.GetCredential) in a read transaction of
\* its own; found with the prefix key made of the id asked for and of the
\* fields of the record, or an error whose text contains
\* credentialNotFoundErrMsg (the call returns nil), or another error
deleteCredentialPrefix(d, id) ==
    LET got == getCredential(d, id, credentialNamespace)
    IN  [err |-> /\ got.err # "none"
                 /\ ~Contains(getCredentialErrorText(got.err, id), credentialNotFoundErrMsg),
         found |-> got.err = "none",
         prefix |-> createPrefixKey(id, got.stored.Issuer, got.stored.Subject,
                                    got.stored.Schema)]

----------------------------------------------------------------------------
(* Byte order of keys: bolt cursors walk a bucket in ascending byte order *)

\* the characters of the model in ASCII order
Alphabet == <<" ", "-", "0", "1", "2", "3", "4", "5", "6", "7", "8", "9", ":", ";", "a", "b",
              "c", "d", "e", "f", "g", "h", "i", "j", "k", "l", "m", "n", "o", "p", "q", "r",
              "s", "t", "u", "v", "w", "x", "y", "z">>

Rank(c) == CHOOSE i \in 1..Len(Alphabet) : Alphabet[i] = c

RECURSIVE Less(_, _)
\* bytes.Compare(a, b) < 0
Less(a, b) ==
    IF b = <<>> THEN FALSE
    ELSE IF a = <<>> THEN TRUE
    ELSE IF a[1] # b[1] THEN Rank(a[1]) < Rank(b[1])
    ELSE Less(Tail(a), Tail(b))

RECURSIVE Sorted(_)
\* the keys of ks in ascending byte order
Sorted(ks) ==
    IF ks = {} THEN <<>>
    ELSE LET m == CHOOSE k \in ks : \A o \in ks \ {k} : Less(k, o)
         IN  <<m>> \o Sorted(ks \ {m})

----------------------------------------------------------------------------
(* Lookup by issuer and schema *)

\* the loop "now get each credential by key": a record that fails to
\* unmarshal is logged, and the zero-valued cred is appended all the same
RECURSIVE readEach(_, _, _)
readEach(d, namespace, keys) ==
    IF keys = <<>> THEN <<>>
    ELSE LET got == UnmarshalStoredCredential(Read(d, namespace, keys[1]))
         IN  <<got.stored>> \o readEach(d, namespace, Tail(keys))

\* Storage.GetCredentialsByIssuer: ReadAllKeys and the keys it keeps
issuerKeys(d, issuer) ==
    LET match(k) == Contains(k, issuer)
    IN  SelectSeq(Sorted(ReadAllKeys(d, credentialNamespace)), match)

\* Storage.GetCredentialsBySubject: ReadAllKeys and the keys it keeps
subjectKeys(d, subject) ==
    LET match(k) == Contains(k, subject)
    IN  SelectSeq(Sorted(ReadAllKeys(d, credentialNamespace)), match)

\* a schema query that matches sc:schema anywhere in the key
schemaKeysContains(d, schema) ==
    LET query == <<"s", "c", ":">> \o schema
        match(k) == Contains(k, query)
    IN  SelectSeq(Sorted(ReadAllKeys(d, credentialNamespace)), match)

\* Storage.GetCredentialsBySchema: ReadAllKeys and the keys it keeps
schemaKeys(d, schema) ==
    LET query == <<"s", "c", ":">> \o schema
        match(k) == HasSuffix(k, query)
    IN  SelectSeq(Sorted(ReadAllKeys(d, credentialNamespace)), match)

\* Storage.getCredentialsByIssuerAndSchema: ReadAllKeys and the keys it keeps
issuerSchemaKeys(d, issuer, schema, namespace) ==
    LET query == <<"s", "c", ":">> \o schema
        match(k) == Contains(k, issuer) /\ HasSuffix(k, query)
    IN  SelectSeq(Sorted(ReadAllKeys(d, namespace)), match)

\* Storage.getCredentialsByIssuerAndSchema as issue and revoke call it, inside
\* their transaction: no other writer commits between its reads
getCredentialsByIssuerAndSchema(d, issuer, schema, namespace) ==
    readEach(d, namespace, issuerSchemaKeys(d, issuer, schema, namespace))

----------------------------------------------------------------------------
(* Status-list index allocator *)

\* the outcomes of rand.Shuffle on 1..count
\* a shuffle of the bit positions 0..count-1 instead of 1..count
ShufflesOfPositions(count) ==
    {p \in [1..count -> 0..(count - 1)] : \A i, j \in 1..count : i # j => p[i] # p[j]}

Shuffles(count) ==
    {p \in [1..count -> 1..count] : \A i, j \in 1..count : i # j => p[i] # p[j]}

\* NewCredentialStorage with randomUniqueNum returning perm: both records are
\* written whether or not they exist
NewCredentialStorage(d, perm) ==
    LET d1 == Write(d, statusListIndexNamespace, statusListIndexesKey, JSONArray(perm))
    IN  Write(d1, statusListIndexNamespace, currentListIndexKey, MarshalStatusListIndex(0))

\* Storage.GetNextStatusListRandomIndex: err is "none", "error", or "panic"
\* (uniqueNums[statusListIndex.Index] out of range)
GetNextStatusListRandomIndex(d) ==
    LET gotUniqueNumBytes == Read(d, statusListIndexNamespace, statusListIndexesKey)
        nums == UnmarshalInts(gotUniqueNumBytes)
        idx  == UnmarshalStatusListIndex(Read(d, statusListIndexNamespace, currentListIndexKey))
    IN  IF gotUniqueNumBytes = Nil \/ nums.err \/ idx.err THEN [err |-> "error", index |-> -1]
        ELSE IF idx.Index + 1 \notin 1..Len(nums.v) THEN [err |-> "panic", index |-> -1]
        ELSE [err |-> "none", index |-> nums.v[idx.Index + 1]]

\* a write context that stores the cursor it read, not advanced
GetStaleStatusListIndexWriteContext(d) ==
    LET idx == UnmarshalStatusListIndex(Read(d, statusListIndexNamespace, currentListIndexKey))
    IN  IF idx.err THEN [err |-> TRUE, wc |-> NoWriteContext]
        ELSE [err |-> FALSE,
              wc |-> WriteContext(statusListIndexNamespace, currentListIndexKey,
                                  MarshalStatusListIndex(idx.Index))]

\* Storage.GetIncrementStatusListIndexWriteContext
GetIncrementStatusListIndexWriteContext(d) ==
    LET idx == UnmarshalStatusListIndex(Read(d, statusListIndexNamespace, currentListIndexKey))
    IN  IF idx.err THEN [err |-> TRUE, wc |-> NoWriteContext]
        ELSE [err |-> FALSE,
              wc |-> WriteContext(statusListIndexNamespace, currentListIndexKey,
                                  MarshalStatusListIndex(idx.Index + 1))]

\* Storage.IncrementStatusListIndex
IncrementStatusListIndex(d) ==
    LET got == GetIncrementStatusListIndexWriteContext(d)
    IN  IF got.err THEN [err |-> TRUE, db |-> d]
        ELSE [err |-> FALSE, db |-> Write(d, got.wc.namespace, got.wc.key, got.wc.value)]

\* the stored cursor and the stored pool
Cursor(d) == UnmarshalStatusListIndex(Read(d, statusListIndexNamespace, currentListIndexKey)).Index

Pool(d) == UnmarshalInts(Read(d, statusListIndexNamespace, statusListIndexesKey)).v

----------------------------------------------------------------------------
(* Status-list credential engine and credential lifecycle (spec sections   *)
(* 4.4 and 4.5), on top of the storage operations above                    *)

\* the stored records of a namespace that decode
StoredCredentials(d, namespace) ==
    {UnmarshalStoredCredential(d[namespace][k]).stored : k \in Keys(d, namespace)}

\* a store request for the credential vc in the given form
Request(vc, form, revoked) ==
    IF form = "jwt"
    THEN Container(vc.id, NilVC, JWT([vc EXCEPT !.proof = FALSE], FALSE), revoked)
    ELSE Container(vc.id, [vc EXCEPT !.proof = TRUE], NilJWT, revoked)

\* a new, signed status-list VC for (issuer, schema) with an empty bitstring
NewStatusListCredential(listID, issuer, schema) ==
    VerifiableCredential(listID, issuer, listID, schema, NoStatus, TRUE, {})

\* get_or_create: the first status-list VC found for (issuer, schema), else a
\* new one with the identifier listID
GetOrCreateStatusList(d, issuer, schema, listID) ==
    LET found == getCredentialsByIssuerAndSchema(d, issuer, schema,
                                                 statusListCredentialNamespace)
    IN  IF found # <<>> THEN [created |-> FALSE, vc |-> found[1].Credential]
        ELSE [created |-> TRUE, vc |-> NewStatusListCredential(listID, issuer, schema)]

\* an issue that prepares no write of the cursor increment
PrepareIssueStale(d, id, issuer, subject, schema, form, listID) ==
    LET next == GetNextStatusListRandomIndex(d)
        list == GetOrCreateStatusList(d, issuer, schema, listID)
        vc   == VerifiableCredential(id, issuer, subject, schema,
                                     StatusEntry(next.index, list.vc.id), FALSE, {})
        cwc  == getStoreCredentialWriteContext(Request(vc, form, FALSE),
                                               credentialNamespace)
        iwc  == GetIncrementStatusListIndexWriteContext(d)
        lwc  == getStoreCredentialWriteContext(Request(list.vc, "di", FALSE),
                                               statusListCredentialNamespace)
    IN  IF next.err # "none" THEN [err |-> "exhausted", vc |-> NilVC, wcs |-> <<>>]
        ELSE IF list.vc.nil \/ cwc.err \/ iwc.err \/ (list.created /\ lwc.err)
        THEN [err |-> "invalid", vc |-> NilVC, wcs |-> <<>>]
        ELSE [err |-> "none", vc |-> vc,
              wcs |-> <<cwc.wc>> \o (IF list.created THEN <<lwc.wc>> ELSE <<>>)]

\* the reads of a revocable issue and the write contexts it prepares: the new
\* credential, the cursor increment and, if one is created, the status-list
\* VC; err is "none", "exhausted" (no index left) or "invalid"
PrepareIssue(d, id, issuer, subject, schema, form, listID) ==
    LET next == GetNextStatusListRandomIndex(d)
        list == GetOrCreateStatusList(d, issuer, schema, listID)
        vc   == VerifiableCredential(id, issuer, subject, schema,
                                     StatusEntry(next.index, list.vc.id), FALSE, {})
        cwc  == getStoreCredentialWriteContext(Request(vc, form, FALSE),
                                               credentialNamespace)
        iwc  == GetIncrementStatusListIndexWriteContext(d)
        lwc  == getStoreCredentialWriteContext(Request(list.vc, "di", FALSE),
                                               statusListCredentialNamespace)
    IN  IF next.err # "none" THEN [err |-> "exhausted", vc |-> NilVC, wcs |-> <<>>]
        ELSE IF list.vc.nil \/ cwc.err \/ iwc.err \/ (list.created /\ lwc.err)
        THEN [err |-> "invalid", vc |-> NilVC, wcs |-> <<>>]
        ELSE [err |-> "none", vc |-> vc,
              wcs |-> <<cwc.wc, iwc.wc>> \o (IF list.created THEN <<lwc.wc>> ELSE <<>>)]

\* an issue whose failing write leaves the earlier writes of its batch in place
IssueCredentialPartial(d, id, issuer, subject, schema, form, revocable, listID, failAt) ==
    IF ~revocable
    THEN LET vc  == VerifiableCredential(id, issuer, subject, schema, NoStatus, FALSE, {})
             out == storeCredential(d, Request(vc, form, FALSE), credentialNamespace)
         IN  IF out.err THEN [err |-> "invalid", db |-> d, vc |-> NilVC]
             ELSE IF failAt # 0 THEN [err |-> "storage", db |-> d, vc |-> NilVC]
             ELSE [err |-> "none", db |-> out.db, vc |-> vc]
    ELSE LET p   == PrepareIssue(d, id, issuer, subject, schema, form, listID)
             out == WriteManyPartial(d, p.wcs, failAt)
         IN  IF p.err # "none" THEN [err |-> p.err, db |-> d, vc |-> NilVC]
             ELSE IF out.err THEN [err |-> "storage", db |-> out.db, vc |-> NilVC]
             ELSE [err |-> "none", db |-> out.db, vc |-> p.vc]

\* an issue that moves the cursor for a credential that is not revocable
IssueCredentialAdvancing(d, id, issuer, subject, schema, form, revocable, listID, failAt) ==
    IF ~revocable
    THEN LET vc  == VerifiableCredential(id, issuer, subject, schema, NoStatus, FALSE, {})
             out == storeCredentialAdvancing(d, Request(vc, form, FALSE),
                                              credentialNamespace)
         IN  IF out.err THEN [err |-> "invalid", db |-> d, vc |-> NilVC]
             ELSE IF failAt # 0 THEN [err |-> "storage", db |-> d, vc |-> NilVC]
             ELSE [err |-> "none", db |-> out.db, vc |-> vc]
    ELSE LET p   == PrepareIssue(d, id, issuer, subject, schema, form, listID)
             out == WriteMany(d, p.wcs, failAt)
         IN  IF p.err # "none" THEN [err |-> p.err, db |-> d, vc |-> NilVC]
             ELSE IF out.err THEN [err |-> "storage", db |-> out.db, vc |-> NilVC]
             ELSE [err |-> "none", db |-> out.db, vc |-> p.vc]

\* issue: err is "none", "exhausted" (no index left), "invalid" or "storage";
\* failAt is the entry of the write batch whose Put fails (0: none)
IssueCredential(d, id, issuer, subject, schema, form, revocable, listID, failAt) ==
    IF ~revocable
    THEN LET vc  == VerifiableCredential(id, issuer, subject, schema, NoStatus, FALSE, {})
             out == storeCredential(d, Request(vc, form, FALSE), credentialNamespace)
         IN  IF out.err THEN [err |-> "invalid", db |-> d, vc |-> NilVC]
             ELSE IF failAt # 0 THEN [err |-> "storage", db |-> d, vc |-> NilVC]
             ELSE [err |-> "none", db |-> out.db, vc |-> vc]
    ELSE LET p   == PrepareIssue(d, id, issuer, subject, schema, form, listID)
             out == WriteMany(d, p.wcs, failAt)
         IN  IF p.err # "none" THEN [err |-> p.err, db |-> d, vc |-> NilVC]
             ELSE IF out.err THEN [err |-> "storage", db |-> out.db, vc |-> NilVC]
             ELSE [err |-> "none", db |-> out.db, vc |-> p.vc]

\* a revoke that flips the flag back instead of doing nothing
AlreadyRevokedToggle(d, stored) ==
    storeCredential(d, Container(stored.CredentialID, stored.Credential,
                                 stored.CredentialJWT, FALSE), credentialNamespace).db

\* step 1 of revoke on a credential that is already revoked: a no-op
AlreadyRevoked(d, stored) == d

\* a revoke whose failing write leaves the earlier write of its batch in place
RevokeCredentialPartial(d, id, failAt) ==
    LET got   == getCredential(d, id, credentialNamespace)
        cred  == got.stored
        index == cred.Credential.status.index
        found == getCredentialsByIssuerAndSchema(d, cred.Issuer, cred.Schema,
                                                 statusListCredentialNamespace)
        list  == found[1].Credential
        list2 == [list EXCEPT !.encodedList = @ \cup {index}]
        lwc   == getStoreCredentialWriteContext(Request(list2, "di", FALSE),
                                                statusListCredentialNamespace)
        cwc   == getStoreCredentialWriteContext(
                     Container(cred.CredentialID, cred.Credential, cred.CredentialJWT, TRUE),
                     credentialNamespace)
        out   == WriteManyPartial(d, <<lwc.wc, cwc.wc>>, failAt)
    IN  IF got.err # "none" THEN [err |-> got.err, db |-> d]
        ELSE IF cred.Revoked THEN [err |-> "none", db |-> AlreadyRevoked(d, cred)]
        ELSE IF cred.Credential.nil \/ cred.Credential.status = NoStatus
        THEN [err |-> "notrevocable", db |-> d]
        ELSE IF found = <<>> \/ list.nil THEN [err |-> "notfound", db |-> d]
        ELSE IF index \notin 0..(bitStringLength - 1) \/ lwc.err \/ cwc.err
        THEN [err |-> "invalid", db |-> d]
        ELSE IF failAt = -1 THEN [err |-> "signing", db |-> d]
        ELSE IF out.err THEN [err |-> "storage", db |-> out.db]
        ELSE [err |-> "none", db |-> out.db]

\* revoke: err is "none", "notfound", "ambiguous", "unmarshal", "notrevocable",
\* "invalid" (the index is no bit position), "signing" (the signing oracle
\* fails on the new status-list VC: failAt = -1) or "storage" (the Put of
\* entry failAt of the batch fails)
RevokeCredential(d, id, failAt) ==
    LET got   == getCredential(d, id, credentialNamespace)
        cred  == got.stored
        index == cred.Credential.status.index
        found == getCredentialsByIssuerAndSchema(d, cred.Issuer, cred.Schema,
                                                 statusListCredentialNamespace)
        list  == found[1].Credential
        list2 == [list EXCEPT !.encodedList = @ \cup {index}]
        lwc   == getStoreCredentialWriteContext(Request(list2, "di", FALSE),
                                                statusListCredentialNamespace)
        cwc   == getStoreCredentialWriteContext(
                     Container(cred.CredentialID, cred.Credential, cred.CredentialJWT, TRUE),
                     credentialNamespace)
        out   == WriteMany(d, <<lwc.wc, cwc.wc>>, failAt)
    IN  IF got.err # "none" THEN [err |-> got.err, db |-> d]
        ELSE IF cred.Revoked THEN [err |-> "none", db |-> AlreadyRevoked(d, cred)]
        ELSE IF cred.Credential.nil \/ cred.Credential.status = NoStatus
        THEN [err |-> "notrevocable", db |-> d]
        ELSE IF found = <<>> \/ list.nil THEN [err |-> "notfound", db |-> d]
        ELSE IF index \notin 0..(bitStringLength - 1) \/ lwc.err \/ cwc.err
        THEN [err |-> "invalid", db |-> d]
        ELSE IF failAt = -1 THEN [err |-> "signing", db |-> d]
        ELSE IF out.err THEN [err |-> "storage", db |-> out.db]
        ELSE [err |-> "none", db |-> out.db]

----------------------------------------------------------------------------
(* Configuration loading (package config).  A path is a sequence of         *)
(* characters, a password a string, the environment a function from the    *)
(* names of the variables that are set to their values                     *)

ConfigExtension == <<".", "t", "o", "m", "l">>
KeystorePassword == "KEYSTORE_PASSWORD"
DBPassword == "DB_PASSWORD"

\* filepath.Ext: the suffix that starts at the last dot of the last element of
\* the path, empty when that element has no dot
Ext(path) ==
    LET dots == {i \in 1..Len(path) :
                    path[i] = "." /\ \A j \in i..Len(path) : path[j] # "/"}
    IN  IF dots = {} THEN <<>>
        ELSE SubSeq(path, CHOOSE i \in dots : \A j \in dots : j <= i, Len(path))

\* the values of the interface{} field StorageOption: nil, a
\* map[string]interface{}, or a value of another type; NoVars is the map
\* without entries
NoVars == [k \in {} |-> ""]
NilOption == [kind |-> "nil", v |-> NoVars]
MapOption(m) == [kind |-> "map", v |-> m]
StringOption(x) == [kind |-> "string", v |-> x]

\* the fields of SSIServiceConfig the environment can override
SSIServiceConfig(password, option) ==
    [ServiceKeyPassword |-> password, StorageOption |-> option]

\* var config SSIServiceConfig
ZeroConfig == SSIServiceConfig("", NilOption)

\* checkValidConfigPath
checkValidConfigPath(path) ==
    IF path = <<>> THEN [err |-> FALSE, defaultConfig |-> TRUE]
    ELSE IF Ext(path) # ConfigExtension THEN [err |-> TRUE, defaultConfig |-> FALSE]
    ELSE [err |-> FALSE, defaultConfig |-> FALSE]

\* loadDefaultServicesConfig
loadDefaultServicesConfig == SSIServiceConfig("default-password", NilOption)

\* a TOML file that cannot be decoded or does not exist
NoFile == [kind |-> "missing", password |-> "", option |-> NilOption, credential |-> FALSE]

\* a TOML file: its keystore password, its storage_option, and whether it has
\* a table for the credential service
TOMLFile(password, option, credential) ==
    [kind |-> "toml", password |-> password, option |-> option, credential |-> credential]

\* loadTOMLConfig: err is "none", "toml" (DecodeFile failed) or "panic" (the
\* BaseServiceConfig of the credential service is a nil pointer)
loadTOMLConfig(file) ==
    IF file.kind = "missing" THEN [err |-> "toml", config |-> ZeroConfig]
    ELSE IF ~file.credential THEN [err |-> "panic", config |-> ZeroConfig]
    ELSE [err |-> "none", config |-> SSIServiceConfig(file.password, file.option)]

\* a .env file that does not exist, one that does not parse, one with variables
NoEnvFile == [kind |-> "absent", v |-> NoVars]
BadEnvFile == [kind |-> "malformed", v |-> NoVars]
EnvFile(variables) == [kind |-> "file", v |-> variables]

\* godotenv.Load: the variables of the file are set in the environment, those
\* that are set already keep their value
godotenvLoad(envFile, env) ==
    [k \in DOMAIN env \cup DOMAIN envFile.v |->
        IF k \in DOMAIN env THEN env[k] ELSE envFile.v[k]]

\* applyEnvVariables: err is "none", "dotenv" or "option"
applyEnvVariables(config, envFile, env) ==
    IF envFile.kind = "absent" THEN [err |-> "none", config |-> config]
    ELSE IF envFile.kind = "malformed" THEN [err |-> "dotenv", config |-> config]
    ELSE LET e  == godotenvLoad(envFile, env)
             c1 == IF KeystorePassword \in DOMAIN e
                   THEN [config EXCEPT !.ServiceKeyPassword = e[KeystorePassword]]
                   ELSE config
             o  == IF c1.StorageOption.kind = "nil" THEN MapOption(NoVars)
                   ELSE c1.StorageOption
         IN  IF DBPassword \notin DOMAIN e THEN [err |-> "none", config |-> c1]
             ELSE IF o.kind # "map" THEN [err |-> "option", config |-> c1]
             ELSE [err |-> "none",
                   config |-> [c1 EXCEPT !.StorageOption =
                                  MapOption(Merge(o.v, [password |-> e[DBPassword]]))]]

\* LoadConfig: err is "none", "path", "toml", "panic", "dotenv" or "option"
LoadConfig(path, file, envFile, env) ==
    LET valid  == checkValidConfigPath(path)
        loaded == IF valid.defaultConfig
                  THEN [err |-> "none", config |-> loadDefaultServicesConfig]
                  ELSE loadTOMLConfig(file)
        out    == applyEnvVariables(loaded.config, envFile, env)
    IN  IF valid.err THEN [err |-> "path", config |-> ZeroConfig]
        ELSE IF loaded.err # "none" THEN [err |-> loaded.err, config |-> ZeroConfig]
        ELSE IF out.err # "none" THEN [err |-> out.err, config |-> ZeroConfig]
        ELSE out

----------------------------------------------------------------------------
(* Inputs *)

Ids == {<<"a">>, <<"a", "b">>, <<"a", "c">>}
Issuers == {<<"x">>, <<"x", "y">>}
Subjects == {<<"h">>}
Schemas == {<<>>, <<"k">>}
ListIds == {<<"l", "1">>, <<"l", "2">>}

\* forms of a store request: a data-integrity credential, a JWT, a JWT that
\* does not parse, a credential without a proof, and neither
Forms == {"di", "jwt"}
StoreForms == Forms \cup {"badjwt", "unsigned", "none"}

StoreRequest(id, issuer, subject, schema, form, revoked) ==
    LET vc == VerifiableCredential(id, issuer, subject, schema, NoStatus, FALSE, {})
    IN  CASE form = "none" -> Container(id, NilVC, NilJWT, revoked)
          [] form = "badjwt" -> Container(id, NilVC, JWT(vc, TRUE), revoked)
          [] form = "unsigned" -> Container(id, vc, NilJWT, revoked)
          [] OTHER -> Request(vc, form, revoked)

\* inputs of the KV substrate
KVNamespaces == {"ns", "op"}
KVKeys == {<<"a">>, <<"a", "b">>}
KVPrefixes == {<<"a">>, <<"b">>}
KVValues == {JSONObject([n |-> 1]), JSONArray(<<>>)}

\* the writes a batch or a transaction is made of
KVWrites ==
    {WriteContext("ns", <<"a">>, JSONObject([n |-> 1])),
     WriteContext("ns", <<"a">>, JSONArray(<<>>)),
     WriteContext("ns", <<"a", "b">>, JSONObject([n |-> 1])),
     WriteContext("op", <<"a">>, JSONObject([n |-> 1]))}

Batches == UNION {[1..n -> KVWrites] : n \in 1..MaxBatch}

\* inputs of LoadConfig: no path, a TOML path, a path with another extension
ConfigPaths == {<<>>, <<"c">> \o ConfigExtension, <<"c", ".", "t", "o", "m">>}

StorageOptions == {NilOption, MapOption([path |-> "p"]), StringOption("p")}

ConfigFiles ==
    {NoFile} \cup {TOMLFile("filepw", o, c) : o \in StorageOptions, c \in BOOLEAN}

\* the environments in which each of the two variables is set or not
Environments ==
    {NoVars, [KEYSTORE_PASSWORD |-> "envks"], [DB_PASSWORD |-> "envdb"],
     [KEYSTORE_PASSWORD |-> "envks", DB_PASSWORD |-> "envdb"]}

\* stored values of BoltDB.Update: objects with numbers that are and that are
\* not a float64, and bytes that are no JSON object
UpdateValues ==
    {JSONObject([n |-> 1]), JSONObject([n |-> MaxExact + 1, m |-> 1]), JSONArray(<<>>)}

\* field maps of BoltDB.Update
FieldMaps == {[done |-> TRUE], [m |-> 2], [n |-> 2, done |-> TRUE]}

\* the request handlers that run concurrently, and the credential each issues
Handlers == {1, 2}
HandlerId(h) == <<"a", IF h = 1 THEN "b" ELSE "c">>

\* the writes of a transaction that is not an issuance
TxWrites ==
    {WriteContext("ns", <<"a">>, JSONObject([n |-> 1])),
     WriteContext("ns", <<"a">>, JSONArray(<<>>))}

EnvFiles ==
    {NoEnvFile, BadEnvFile, EnvFile(NoVars),
     EnvFile([KEYSTORE_PASSWORD |-> "dotks", DB_PASSWORD |-> "dotdb"])}

----------------------------------------------------------------------------
(* State machine: db is the database, last the latest call with its result *)
(* (again: the call before it was the same call and succeeded; form: the   *)
(* form of the request of a put), probe the                                *)
(* latest evaluation of createPrefixKey, kv the latest call of the KV       *)
(* substrate or of a list operation, with its arguments and its result,    *)
(* for as long as no later operation has written to the database, deleted  *)
(* the status entries of the revocable credentials that were deleted, proc *)
(* the request handlers and the writer lock of the database, cfg the       *)
(* latest call of LoadConfig                                               *)

Result(op, id, err, stored, index) ==
    [op |-> op, id |-> id, err |-> err, stored |-> stored, index |-> index, form |-> "",
     again |-> op \in {"revoke", "delete", "next"} /\ last.op = op /\ last.id = id
               /\ last.err = "none"]

NoResult ==
    [op |-> "init", id |-> <<>>, err |-> "none", stored |-> ZeroStoredCredential,
     index |-> 0, form |-> "", again |-> FALSE]

NoCall == [op |-> "none"]

NoProbe ==
    [id |-> <<>>, issuer |-> <<>>, subject |-> <<>>, schema |-> <<>>, n |-> 0, key |-> <<>>]

\* no configuration has been loaded
NoConfig == [op |-> "none"]

\* a request handler that is not in a call
IdleHandler == [pc |-> "idle", index |-> 0, batch |-> <<>>]

\* no handler holds the writer lock of the database, none is in a call.
\* committed and rolledBack are the history of the handlers' transactions: the
\* writes of those that t.Commit() (or a db.Update) has committed, and the
\* writes of those that t.Rollback() has ended
NoProc ==
    [writer |-> 0, tx |-> <<>>, h |-> [i \in Handlers |-> IdleHandler],
     committed |-> {}, rolledBack |-> {}]

Init ==
    /\ \E perm \in Shuffles(bitStringLength) : db = NewCredentialStorage(EmptyDB, perm)
    /\ last = NoResult
    /\ probe = NoProbe
    /\ kv = NoCall
    /\ deleted = {}
    /\ proc = NoProc
    /\ cfg = NoConfig

\* Storage.StoreCredential on requests of the given subjects and forms
CallStoreCredentialWith(ids, issuers, subjects, schemas, forms, revokeds) ==
    \E id \in ids, issuer \in issuers, subject \in subjects, schema \in schemas,
       form \in forms, revoked \in revokeds :
        LET request == StoreRequest(id, issuer, subject, schema, form, revoked)
            out     == storeCredential(db, request, credentialNamespace)
        IN  /\ Cardinality(Keys(out.db, credentialNamespace)) <= MaxCreds
            /\ db' = out.db
            /\ last' = [Result("store", id, IF out.err THEN "invalid" ELSE "none",
                               ZeroStoredCredential, 0) EXCEPT !.form = form]
            /\ kv' = NoCall
            /\ UNCHANGED <<probe, aux>>

\* Storage.StoreCredential on requests of the given forms
CallStoreCredentialOf(ids, issuers, schemas, forms, revokeds) ==
    CallStoreCredentialWith(ids, issuers, Subjects, schemas, forms, revokeds)

\* Storage.StoreCredential on requests of every form
CallStoreCredential(ids, issuers, schemas) ==
    CallStoreCredentialOf(ids, issuers, schemas, StoreForms, BOOLEAN)

\* Storage.GetCredential
CallGetCredential(ids) ==
    \E id \in ids :
        LET got == getCredential(db, id, credentialNamespace)
        IN  /\ last' = Result("get", id, got.err, got.stored, 0)
            /\ UNCHANGED <<db, probe, kv, aux>>

\* Storage.deleteCredential, first part: handler h looks the id up.  When the
\* lookup finds nothing the call returns nil, when it fails the call returns
\* the error; otherwise the handler goes on to db.Delete with the prefix key
\* (last then tells that the lookup has been made)
deleteCredentialGet(h, id, namespace, op) ==
    LET got == deleteCredentialPrefix(db, id)
    IN  /\ proc.h[h].pc = "idle"
        /\ IF got.found
           THEN /\ proc' = [proc EXCEPT !.h[h] =
                               [pc |-> "delete", index |-> 0, batch |-> <<>>, op |-> op,
                                id |-> id, namespace |-> namespace, prefix |-> got.prefix]]
                /\ last' = Result("lookup", id, "none", ZeroStoredCredential, 0)
           ELSE /\ last' = Result(op, id, IF got.err THEN "error" ELSE "none",
                                  ZeroStoredCredential, 0)
                /\ UNCHANGED proc
        /\ UNCHANGED <<db, probe, kv, deleted, cfg>>

\* Storage.deleteCredential, second part: db.Delete of the prefix key in the
\* namespace, in a write transaction of its own, and the return
deleteCredentialDelete(h) ==
    LET c    == proc.h[h]
        out  == Delete(db, c.namespace, c.prefix)
        gone == StoredCredentials(db, credentialNamespace)
                    \ StoredCredentials(out.db, credentialNamespace)
    IN  /\ c.pc = "delete"
        /\ db' = out.db
        /\ last' = Result(c.op, c.id, IF out.err THEN "error" ELSE "none",
                          ZeroStoredCredential, 0)
        /\ kv' = NoCall
        /\ deleted' = deleted \cup {r.Credential.status :
                                        r \in {g \in gone : g.Credential.status # NoStatus}}
        /\ proc' = [proc EXCEPT !.h[h] = IdleHandler]
        /\ UNCHANGED <<probe, cfg>>

\* Storage.DeleteCredential, called by handler h
CallDeleteCredential(h, ids) ==
    \E id \in ids : deleteCredentialGet(h, id, credentialNamespace, "delete")

\* Storage.GetStatusListCredential
CallGetStatusListCredential ==
    \E id \in ListIds :
        LET got == getCredential(db, id, statusListCredentialNamespace)
        IN  /\ last' = Result("getlist", id, got.err, got.stored, 0)
            /\ UNCHANGED <<db, probe, kv, aux>>

\* Storage.DeleteStatusListCredential, called by handler h
CallDeleteStatusListCredential(h) ==
    \E id \in ListIds :
        deleteCredentialGet(h, id, statusListCredentialNamespace, "deletelist")

\* Storage.StoreStatusListCredential
CallStoreStatusListCredential ==
    \E id \in ListIds, issuer \in {<<"x">>}, subject \in Subjects \cup ListIds,
       form \in {"di", "none"} :
        LET request == StoreRequest(id, issuer, subject, <<"k">>, form, FALSE)
            out     == storeCredential(db, request, statusListCredentialNamespace)
        IN  /\ Cardinality(Keys(out.db, statusListCredentialNamespace)) <= MaxCreds
            /\ db' = out.db
            /\ last' = [Result("storelist", id, IF out.err THEN "invalid" ELSE "none",
                               ZeroStoredCredential, 0) EXCEPT !.form = form]
            /\ kv' = NoCall
            /\ UNCHANGED <<probe, aux>>

\* a process start: the database file is locked by the process that has it
\* open, so the calls of the process before are over; NewCredentialStorage
\* makes its two writes on the database as it is before the new process
\* serves a call
Restart ==
    \E perm \in Shuffles(bitStringLength) :
        /\ db' = NewCredentialStorage(db, perm)
        /\ last' = Result("init", <<>>, "none", ZeroStoredCredential, 0)
        /\ kv' = NoCall
        /\ proc' = NoProc
        /\ UNCHANGED <<probe, deleted, cfg>>

\* a next_index that also advances the cursor
CallNextIndexAdvancing(h) ==
    LET gotUniqueNumBytes == Read(db, statusListIndexNamespace, statusListIndexesKey)
        nums == UnmarshalInts(gotUniqueNumBytes)
    IN  /\ proc.h[h].pc = "idle"
        /\ Cursor(db) < MaxCursor
        /\ gotUniqueNumBytes # Nil /\ ~nums.err
        /\ db' = IncrementStatusListIndex(db).db
        /\ proc' = [proc EXCEPT !.h[h] = [pc |-> "next", index |-> 0, batch |-> <<>>,
                                          uniqueNums |-> nums.v]]
        /\ kv' = NoCall
        /\ UNCHANGED <<last, probe, deleted, cfg>>

\* Storage.GetNextStatusListRandomIndex, called by handler h, first read: the
\* pool; the call returns an error when it is missing or does not decode
CallNextIndex(h) ==
    LET gotUniqueNumBytes == Read(db, statusListIndexNamespace, statusListIndexesKey)
        nums == UnmarshalInts(gotUniqueNumBytes)
    IN  /\ proc.h[h].pc = "idle"
        /\ IF gotUniqueNumBytes = Nil \/ nums.err
           THEN /\ last' = Result("next", <<>>, "error", ZeroStoredCredential, -1)
                /\ UNCHANGED proc
           ELSE /\ proc' = [proc EXCEPT !.h[h] = [pc |-> "next", index |-> 0,
                                                  batch |-> <<>>, uniqueNums |-> nums.v]]
                /\ UNCHANGED last
        /\ UNCHANGED <<db, probe, kv, deleted, cfg>>

\* Storage.GetNextStatusListRandomIndex, second read: the cursor, and the
\* return of uniqueNums[statusListIndex.Index]
nextIndexReturn(h) ==
    LET uniqueNums == proc.h[h].uniqueNums
        idx == UnmarshalStatusListIndex(Read(db, statusListIndexNamespace,
                                             currentListIndexKey))
        out == IF idx.err THEN [err |-> "error", index |-> -1]
               ELSE IF idx.Index + 1 \notin 1..Len(uniqueNums)
               THEN [err |-> "panic", index |-> -1]
               ELSE [err |-> "none", index |-> uniqueNums[idx.Index + 1]]
    IN  /\ proc.h[h].pc = "next"
        /\ last' = Result("next", <<>>, out.err, ZeroStoredCredential, out.index)
        /\ proc' = [proc EXCEPT !.h[h] = IdleHandler]
        /\ UNCHANGED <<db, probe, kv, deleted, cfg>>

\* Storage.IncrementStatusListIndex, called by handler h, first part:
\* GetIncrementStatusListIndexWriteContext reads the cursor
CallIncrement(h) ==
    LET got == GetIncrementStatusListIndexWriteContext(db)
    IN  /\ proc.h[h].pc = "idle"
        /\ Cursor(db) < MaxCursor
        /\ IF got.err
           THEN /\ last' = Result("increment", <<>>, "error", ZeroStoredCredential, 0)
                /\ UNCHANGED proc
           ELSE /\ proc' = [proc EXCEPT !.h[h] = [pc |-> "incrementing", index |-> 0,
                                                  batch |-> <<>>, wc |-> got.wc]]
                /\ UNCHANGED last
        /\ UNCHANGED <<db, probe, kv, deleted, cfg>>

\* Storage.IncrementStatusListIndex, second part: the write of the write
\* context, whatever has been written since the cursor was read
incrementWrite(h) ==
    LET wc == proc.h[h].wc
    IN  /\ proc.h[h].pc = "incrementing"
        /\ db' = Write(db, wc.namespace, wc.key, wc.value)
        /\ last' = Result("increment", <<>>, "none", ZeroStoredCredential, 0)
        /\ kv' = NoCall
        /\ proc' = [proc EXCEPT !.h[h] = IdleHandler]
        /\ UNCHANGED <<probe, deleted, cfg>>

\* Storage.GetIncrementStatusListIndexWriteContext, called by handler h, which
\* keeps the write context it gets
CallGetIncrementWriteContext(h) ==
    LET got == GetIncrementStatusListIndexWriteContext(db)
    IN  /\ proc.h[h].pc = "idle"
        /\ Cursor(db) < MaxCursor
        /\ kv' = [op |-> "getincrement", err |-> got.err, wc |-> got.wc]
        /\ proc' = IF got.err THEN proc
                   ELSE [proc EXCEPT !.h[h] = [pc |-> "increment", index |-> 0,
                                               batch |-> <<>>, wc |-> got.wc]]
        /\ UNCHANGED <<db, last, probe, deleted, cfg>>

\* Storage.WriteMany of handler h on the write context it keeps, whatever has
\* been written since the context was made
CallWriteIncrement(h) ==
    LET out == WriteMany(db, <<proc.h[h].wc>>, 0)
    IN  /\ proc.h[h].pc = "increment"
        /\ db' = out.db
        /\ last' = Result("writeincrement", <<>>, IF out.err THEN "error" ELSE "none",
                          ZeroStoredCredential, 0)
        /\ kv' = NoCall
        /\ proc' = [proc EXCEPT !.h[h] = IdleHandler]
        /\ UNCHANGED <<probe, deleted, cfg>>

\* identifiers no stored record uses
FreshIds(ids, namespace) ==
    {id \in ids : \A sc \in StoredCredentials(db, namespace) : sc.CredentialID # id}

\* issue, with a fresh credential id and, if a list is created, a fresh list id
CallIssue(ids, issuers, schemas, revocables, fails) ==
    \E id \in FreshIds(ids, credentialNamespace),
       listID \in FreshIds(ListIds, statusListCredentialNamespace),
       issuer \in issuers, subject \in Subjects, schema \in schemas, form \in Forms,
       revocable \in revocables, failAt \in fails :
        LET out == IssueCredential(db, id, issuer, subject, schema, form, revocable, listID,
                                   failAt)
        IN  /\ Cardinality(Keys(out.db, credentialNamespace)) <= MaxCreds
            /\ Cursor(db) < MaxCursor
            /\ db' = out.db
            /\ last' = Result("issue", id, out.err, ZeroStoredCredential,
                              IF out.err = "none" THEN out.vc.status.index ELSE 0)
            /\ kv' = NoCall
            /\ UNCHANGED <<probe, aux>>

\* revoke
CallRevoke(ids, fails) ==
    \E id \in ids, failAt \in fails :
        LET out == RevokeCredential(db, id, failAt)
        IN  /\ db' = out.db
            /\ last' = Result("revoke", id, out.err, ZeroStoredCredential, 0)
            /\ kv' = NoCall
            /\ UNCHANGED <<probe, aux>>

\* the three sigils of a compound key
SigilIs == <<"-", "i", "s", ":">>
SigilSu == <<"-", "s", "u", ":">>
SigilSc == <<"-", "s", "c", ":">>

\* what the arguments of createPrefixKey are put together from: plain
\* characters, the sigils, and fragments that make a sigil when joined
Pieces == {<<"a">>, <<"-">>, <<":">>, SigilIs, SigilSu, SigilSc, <<"-", "s">>, <<"u", ":">>}

\* createPrefixKey on arguments, one of them a piece longer than before
CallCreatePrefixKey ==
    \E f \in {"id", "issuer", "subject", "schema"}, p \in Pieces :
        LET in == [probe EXCEPT ![f] = @ \o p, !.n = @ + 1]
        IN  /\ probe.n < MaxPieces
            /\ probe' = [in EXCEPT !.key = createPrefixKey(in.id, in.issuer, in.subject,
                                                          in.schema)]
            /\ UNCHANGED <<db, last, kv, aux>>

\* a BoltDB that has just been opened
InitKV ==
    /\ db = EmptyDB
    /\ last = NoResult
    /\ probe = NoProbe
    /\ kv = NoCall
    /\ deleted = {}
    /\ proc = NoProc
    /\ cfg = NoConfig

\* BoltDB.Write
CallWrite(namespaces, keys, values) ==
    \E ns \in namespaces, key \in keys, value \in values :
        /\ db' = Write(db, ns, key, value)
        /\ kv' = [op |-> "write", ns |-> ns, key |-> key]
        /\ UNCHANGED <<last, probe, aux>>

\* BoltDB.Read: a db.View, which sees the committed state of the database
CallRead ==
    \E ns \in KVNamespaces, key \in KVKeys :
        /\ kv' = [op |-> "read", ns |-> ns, key |-> key, err |-> FALSE,
                  result |-> Read(db, ns, key)]
        /\ UNCHANGED <<db, last, probe, aux>>

\* BoltDB.ReadPrefix
CallReadPrefix ==
    \E ns \in KVNamespaces, prefix \in KVPrefixes :
        /\ kv' = [op |-> "readprefix", ns |-> ns, prefix |-> prefix, err |-> FALSE,
                  result |-> ReadPrefix(db, ns, prefix)]
        /\ UNCHANGED <<db, last, probe, aux>>

\* BoltDB.ReadAllKeys
CallReadAllKeys ==
    \E ns \in KVNamespaces :
        /\ kv' = [op |-> "keys", ns |-> ns, err |-> FALSE, result |-> ReadAllKeys(db, ns)]
        /\ UNCHANGED <<db, last, probe, aux>>

\* BoltDB.Delete
CallDelete ==
    \E ns \in KVNamespaces, key \in KVKeys :
        LET out == Delete(db, ns, key)
        IN  /\ db' = out.db
            /\ kv' = [op |-> "delete", ns |-> ns, key |-> key, err |-> out.err]
            /\ UNCHANGED <<last, probe, aux>>

\* BoltDB.WriteMany
CallWriteMany ==
    \E batch \in Batches, failAt \in 0..MaxBatch :
        LET out == WriteMany(db, batch, failAt)
        IN  /\ db' = out.db
            /\ kv' = [op |-> "writemany", batch |-> batch, failAt |-> failAt, err |-> out.err]
            /\ UNCHANGED <<last, probe, aux>>

\* BoltDB.DeleteNamespace
CallDeleteNamespace ==
    \E ns \in KVNamespaces :
        LET out == DeleteNamespace(db, ns)
        IN  /\ db' = out.db
            /\ kv' = [op |-> "deletenamespace", ns |-> ns, err |-> out.err]
            /\ UNCHANGED <<last, probe, aux>>

\* BoltDB.WriteMany with slices of any lengths
CallWriteManySlices ==
    \E namespaces \in UNION {[1..n -> {"ns"}] : n \in 0..MaxBatch},
       keys \in UNION {[1..n -> KVKeys] : n \in 0..MaxBatch},
       values \in UNION {[1..n -> {JSONObject([n |-> 1])}] : n \in 0..MaxBatch} :
        LET out == WriteManySlices(db, namespaces, keys, values)
        IN  /\ db' = out.db
            /\ kv' = [op |-> "writeslices", namespaces |-> namespaces, keys |-> keys,
                      values |-> values, err |-> out.err]
            /\ UNCHANGED <<last, probe, aux>>

\* BoltDB.Execute
CallExecute ==
    \E batch \in Batches, outcome \in {"ok", "error", "panic"},
       ctx \in {"live", "cancelled"} :
        LET out == Execute(db, batch, outcome, ctx)
        IN  /\ db' = out.db
            /\ kv' = [op |-> "execute", batch |-> batch, outcome |-> outcome, ctx |-> ctx,
                      err |-> out.err]
            /\ UNCHANGED <<last, probe, aux>>

\* BoltDB.UpdateValueAndOperation on a value of "ns" and an operation of "op"
CallUpdateValueAndOperation ==
    \E key \in KVKeys, opKey \in KVKeys, valid \in BOOLEAN, opValid \in BOOLEAN :
        LET out == UpdateValueAndOperation(db, "ns", key, Updater([n |-> 2], valid),
                                           "op", opKey, Updater([done |-> TRUE], opValid))
        IN  /\ db' = out.db
            /\ kv' = [op |-> "update", ns |-> "ns", key |-> key, opNs |-> "op",
                      opKey |-> opKey, first |-> out.first, err |-> out.err]
            /\ UNCHANGED <<last, probe, aux>>

\* BoltDB.Update
CallUpdate ==
    \E ns \in KVNamespaces, key \in KVKeys, values \in FieldMaps :
        LET out == Update(db, ns, key, values)
        IN  /\ db' = out.db
            /\ kv' = [op |-> "updatemap", ns |-> ns, key |-> key, values |-> values,
                      data |-> out.data, err |-> out.err]
            /\ UNCHANGED <<last, probe, aux>>

\* the start of a list operation of handler h: ReadAllKeys, in a read
\* transaction of its own, and the keys the operation keeps.  snapshot and
\* undisturbed tell whether the database has stayed as it was at every read
listKeys(h, call, keys, namespace) ==
    /\ proc.h[h].pc = "idle"
    /\ proc' = [proc EXCEPT !.h[h] =
                   [pc |-> "list", index |-> 0, batch |-> <<>>, call |-> call,
                    namespace |-> namespace, keys |-> keys, storedCreds |-> <<>>,
                    snapshot |-> db, undisturbed |-> TRUE]]
    /\ UNCHANGED <<db, last, probe, kv, deleted, cfg>>

\* one turn of the loop "now get each credential by key": Read in a read
\* transaction of its own, json.Unmarshal, append
listRead(h) ==
    LET c == proc.h[h]
    IN  /\ c.pc = "list"
        /\ c.keys # <<>>
        /\ proc' = [proc EXCEPT
                      !.h[h].storedCreds = @ \o readEach(db, c.namespace, <<Head(c.keys)>>),
                      !.h[h].keys = Tail(@),
                      !.h[h].undisturbed = @ /\ db = c.snapshot]
        /\ UNCHANGED <<db, last, probe, kv, deleted, cfg>>

\* the loop is over: the list operation returns storedCreds
listReturn(h) ==
    LET c == proc.h[h]
    IN  /\ c.pc = "list"
        /\ c.keys = <<>>
        /\ kv' = [c.call EXCEPT !.result = c.storedCreds,
                                !.undisturbed = c.undisturbed /\ db = c.snapshot]
        /\ proc' = [proc EXCEPT !.h[h] = IdleHandler]
        /\ UNCHANGED <<db, last, probe, deleted, cfg>>

\* Storage.GetCredentialsByIssuer, called by handler h
CallGetCredentialsByIssuer(h) ==
    \E issuer \in Issuers :
        listKeys(h, [op |-> "list", issuer |-> issuer, schema |-> <<>>, result |-> <<>>,
                     undisturbed |-> TRUE],
                 issuerKeys(db, issuer), credentialNamespace)

\* subjects asked for: a stored subject, the text of an issuer, the text of an id
SubjectQueries == {<<"h">>, <<"x">>, <<"a">>}

\* Storage.GetCredentialsBySubject, called by handler h
CallGetCredentialsBySubject(h) ==
    \E subject \in SubjectQueries :
        listKeys(h, [op |-> "listsubject", subject |-> subject, result |-> <<>>,
                     undisturbed |-> TRUE],
                 subjectKeys(db, subject), credentialNamespace)

\* Storage.GetCredentialsByIssuerAndSchema, called by handler h
CallGetCredentialsByIssuerAndSchema(h) ==
    \E issuer \in Issuers, schema \in Schemas :
        listKeys(h, [op |-> "list", issuer |-> issuer, schema |-> schema, result |-> <<>>,
                     undisturbed |-> TRUE],
                 issuerSchemaKeys(db, issuer, schema, credentialNamespace),
                 credentialNamespace)

\* schemas of which one ends with sc: followed by another, and one with the
\* sigil -sc: followed by another
ListSchemas == {<<"k">>, <<"s", "c", ":", "k">>, <<"h", "-", "s", "c", ":", "k">>}

\* subjects of which one begins with sc:, so that a subject and the schema
\* after it make the end of a key that one of ListSchemas asks for
ListSubjects == {<<"h">>, <<"s", "c", ":", "h">>}

\* Storage.GetCredentialsBySchema, called by handler h; stored tells which
\* database ReadAllKeys has read
CallGetCredentialsBySchema(h) ==
    \E schema \in ListSchemas \cup {<<"h">>} :
        listKeys(h, [op |-> "listschema", schema |-> schema, result |-> <<>>,
                     undisturbed |-> TRUE, stored |-> db],
                 schemaKeys(db, schema), credentialNamespace)

\* a handler calls BoltDB.Execute and waits in b.db.Begin(true) for the writer
\* lock of the database
ExecuteCall(h) ==
    /\ proc.h[h].pc = "idle"
    /\ proc' = [proc EXCEPT !.h[h].pc = "waiting"]
    /\ UNCHANGED <<db, last, probe, kv, deleted, cfg>>

\* b.db.Begin(true) returns: the handler holds the writer lock, its write
\* transaction is open and businessLogicFunc starts
ExecuteBegin(h) ==
    /\ proc.h[h].pc = "waiting"
    /\ proc.writer = 0
    /\ proc' = [proc EXCEPT !.writer = h, !.tx = <<>>, !.h[h].pc = "tx"]
    /\ UNCHANGED <<db, last, probe, kv, deleted, cfg>>

\* boltTx.Write inside businessLogicFunc: a write of the open transaction
TxWrite(h) ==
    \E wc \in TxWrites :
        /\ proc.h[h].pc = "tx"
        /\ Len(proc.tx) < MaxBatch
        /\ proc' = [proc EXCEPT !.tx = Append(@, wc)]
        /\ UNCHANGED <<db, last, probe, kv, deleted, cfg>>

\* the businessLogicFunc of a revocable issue (spec 4.5, step 3): inside the
\* transaction it reads the next index and the status-list VC and prepares
\* its write contexts
TxPrepareIssue(h) ==
    \E listID \in FreshIds(ListIds, statusListCredentialNamespace) :
        LET p == PrepareIssue(db, HandlerId(h), <<"x">>, <<"h">>, <<"k">>, "di", listID)
        IN  /\ proc.h[h].pc = "tx"
            /\ proc.tx = <<>>
            /\ HandlerId(h) \in FreshIds(Ids, credentialNamespace)
            /\ p.err = "none"
            /\ proc' = [proc EXCEPT !.h[h] = [pc |-> "issuing",
                                                index |-> p.vc.status.index,
                                                batch |-> p.wcs]]
            /\ UNCHANGED <<db, last, probe, kv, deleted, cfg>>

\* the reads of a revocable issue whose handler has opened no transaction:
\* the next index, the status-list VC and the cursor, each in a read of its
\* own, and the write contexts prepared from them
HandlerPrepareIssue(h) ==
    \E listID \in FreshIds(ListIds, statusListCredentialNamespace) :
        LET p == PrepareIssue(db, HandlerId(h), <<"x">>, <<"h">>, <<"k">>, "di", listID)
        IN  /\ proc.h[h].pc = "idle"
            /\ HandlerId(h) \in FreshIds(Ids, credentialNamespace)
            /\ p.err = "none"
            /\ proc' = [proc EXCEPT !.h[h] = [pc |-> "prepared",
                                                index |-> p.vc.status.index,
                                                batch |-> p.wcs]]
            /\ UNCHANGED <<db, last, probe, kv, deleted, cfg>>

\* BoltDB.WriteMany by a handler: b.db.Update waits for the writer lock, applies
\* the batch and commits.  The batch is the one the handler's issuance has
\* prepared (spec 4.5: commit via write_many; "issuing" inside the handler's
\* transaction, "prepared" with no transaction open), or any batch when the
\* handler is in no call
HandlerWriteMany(h) ==
    \E batch \in (IF proc.h[h].pc \in {"issuing", "prepared"} THEN {proc.h[h].batch}
                  ELSE {<<wc>> : wc \in TxWrites}) :
        /\ proc.h[h].pc \in {"idle", "issuing", "prepared"}
        /\ proc.writer = 0
        /\ db' = WriteMany(db, batch, 0).db
        /\ kv' = NoCall
        /\ proc' = [proc EXCEPT !.h[h] = IF @.pc = "issuing" THEN [@ EXCEPT !.pc = "written"]
                                         ELSE IdleHandler,
                                !.committed = @ \cup Range(batch)]
        /\ UNCHANGED <<last, probe, deleted, cfg>>

\* businessLogicFunc has returned without error: t.Commit()
ExecuteCommit(h) ==
    /\ proc.h[h].pc \in {"tx", "written"}
    /\ db' = ApplyWrites(db, proc.tx, Len(proc.tx))
    /\ kv' = NoCall
    /\ proc' = [proc EXCEPT !.writer = 0, !.tx = <<>>, !.h[h] = IdleHandler,
                            !.committed = @ \cup Range(proc.tx)]
    /\ UNCHANGED <<last, probe, deleted, cfg>>

\* a rollback that leaves the writes of the transaction in the database
ExecuteRollbackKeeping(h) ==
    /\ proc.h[h].pc \in {"tx", "written"}
    /\ db' = ApplyWrites(db, proc.tx, Len(proc.tx))
    /\ kv' = NoCall
    /\ proc' = [proc EXCEPT !.writer = 0, !.tx = <<>>, !.h[h] = IdleHandler,
                            !.rolledBack = @ \cup Range(proc.tx)]
    /\ UNCHANGED <<last, probe, deleted, cfg>>

\* businessLogicFunc has returned an error or has panicked: t.Rollback()
ExecuteRollback(h) ==
    /\ proc.h[h].pc \in {"tx", "written"}
    /\ proc' = [proc EXCEPT !.writer = 0, !.tx = <<>>, !.h[h] = IdleHandler,
                            !.rolledBack = @ \cup Range(proc.tx)]
    /\ UNCHANGED <<db, last, probe, kv, deleted, cfg>>

\* LoadConfig
CallLoadConfig ==
    \E path \in ConfigPaths, file \in ConfigFiles, envFile \in EnvFiles,
       env \in Environments :
        LET out == LoadConfig(path, file, envFile, env)
        IN  /\ cfg' = [op |-> "load", path |-> path, file |-> file, envFile |-> envFile,
                       env |-> env, err |-> out.err, config |-> out.config]
            /\ UNCHANGED <<db, last, probe, kv, deleted, proc>>

\* the whole system
Next ==
    \/ CallStoreCredential({<<"a">>, <<"a", "b">>}, {<<"x">>}, {<<"k">>})
    \/ CallGetCredential({<<"a">>, <<"a", "b">>})
    \/ CallDeleteCredential(1, {<<"a">>, <<"a", "b">>})
    \/ deleteCredentialDelete(1)
    \/ Restart
    \/ CallNextIndex(1)
    \/ nextIndexReturn(1)
    \/ CallIncrement(1)
    \/ incrementWrite(1)
    \/ CallIssue({<<"a">>, <<"a", "b">>}, {<<"x">>}, {<<"k">>}, BOOLEAN, 0..3)
    \/ CallRevoke({<<"a">>, <<"a", "b">>}, 0..2)

Spec == Init /\ [][Next]_vars

\* the credential store alone
NextStore ==
    \/ CallStoreCredential(Ids, {<<"x">>}, Schemas)
    \/ CallGetCredential(Ids)
    \/ CallDeleteCredential(1, Ids)
    \/ deleteCredentialDelete(1)

SpecStore == Init /\ [][NextStore]_vars

\* sequences of issue operations
NextIssue == CallIssue(Ids, Issuers, {<<"k">>}, BOOLEAN, 0..3)

SpecIssue == Init /\ [][NextIssue]_vars

\* the allocator with issuance
NextAlloc ==
    \/ Restart
    \/ CallNextIndex(1)
    \/ nextIndexReturn(1)
    \/ CallIncrement(1)
    \/ incrementWrite(1)
    \/ CallIssue(Ids, {<<"x">>}, {<<"k">>}, {TRUE}, {0})

SpecAlloc == Init /\ [][NextAlloc]_vars

\* createPrefixKey alone
SpecKey == Init /\ [][CallCreatePrefixKey]_vars

\* sequences interleaving issue and revoke
NextLife ==
    \/ CallIssue(Ids, Issuers, {<<"k">>}, {TRUE}, {0})
    \/ CallRevoke(Ids, 0..2)

SpecLife == Init /\ [][NextLife]_vars

\* issue, revoke and delete of revocable credentials, and process starts
NextBurn ==
    \/ CallIssue({<<"a">>, <<"a", "b">>}, {<<"x">>}, {<<"k">>}, {TRUE}, {0})
    \/ CallRevoke({<<"a">>, <<"a", "b">>}, {0})
    \/ CallDeleteCredential(1, {<<"a">>, <<"a", "b">>})
    \/ deleteCredentialDelete(1)
    \/ Restart

SpecBurn == Init /\ [][NextBurn]_vars

\* issue, and revoke with a failure of the signing oracle or of a write
NextRevoke ==
    \/ CallIssue(Ids, Issuers, {<<"k">>}, {TRUE}, {0})
    \/ CallRevoke(Ids, -1..2)

SpecRevoke == Init /\ [][NextRevoke]_vars

\* transactions and batches on the KV substrate
NextTx ==
    \/ CallExecute
    \/ CallWriteMany
    \/ CallRead

SpecTx == InitKV /\ [][NextTx]_vars

\* single-key operations of the KV substrate
NextKV ==
    \/ CallWrite(KVNamespaces, KVKeys, KVValues)
    \/ CallRead
    \/ CallReadPrefix
    \/ CallReadAllKeys
    \/ CallDelete
    \/ CallDeleteNamespace

SpecKV == InitKV /\ [][NextKV]_vars

\* updates of a value together with its operation
NextUpdate ==
    \/ CallWrite(KVNamespaces, KVKeys, KVValues)
    \/ CallUpdateValueAndOperation

SpecUpdate == InitKV /\ [][NextUpdate]_vars

\* put and get of the credential store
NextPut ==
    \/ CallStoreCredential({<<"a">>, <<"a", "b">>}, {<<"x">>}, Schemas)
    \/ CallGetCredential({<<"a">>, <<"a", "b">>})

SpecPut == Init /\ [][NextPut]_vars

\* the list operations on a credential namespace in which the bytes of a
\* record can have been replaced by bytes that are no stored credential
NextList ==
    \/ CallStoreCredentialOf({<<"a">>}, Issuers, {<<"k">>}, {"di", "none"}, {FALSE})
    \/ CallWrite({credentialNamespace},
                 {createPrefixKey(<<"a">>, <<"x">>, <<"h">>, <<"k">>)}, {JSONArray(<<>>)})
    \/ CallGetCredentialsByIssuer(1)
    \/ CallGetCredentialsByIssuerAndSchema(1)
    \/ listRead(1)
    \/ listReturn(1)

SpecList == Init /\ [][NextList]_vars

\* put, list by issuer and list by subject
NextBy ==
    \/ CallStoreCredentialOf({<<"a">>}, Issuers, {<<"k">>}, {"di", "none"}, {FALSE})
    \/ CallGetCredentialsByIssuer(1)
    \/ CallGetCredentialsBySubject(1)
    \/ listRead(1)
    \/ listReturn(1)

SpecBy == Init /\ [][NextBy]_vars

\* status-list credentials stored by issuances and by
\* StoreStatusListCredential, read and deleted, next to puts and deletes of
\* credentials
NextLists ==
    \/ CallIssue({<<"a">>}, {<<"x">>}, {<<"k">>}, BOOLEAN, {0})
    \/ CallStoreStatusListCredential
    \/ CallStoreCredentialOf({<<"l", "1">>}, {<<"x">>}, {<<"k">>}, {"di", "none"}, {FALSE})
    \/ CallGetStatusListCredential
    \/ CallDeleteStatusListCredential(1)
    \/ CallDeleteCredential(2, {<<"l", "1">>})
    \/ \E h \in Handlers : deleteCredentialDelete(h)

SpecLists == Init /\ [][NextLists]_vars

\* a listing by issuer next to puts and deletes of other handlers
NextListDelete ==
    \/ CallStoreCredentialOf({<<"a">>}, Issuers, {<<"k">>}, {"di", "none"}, {FALSE})
    \/ CallDeleteCredential(2, {<<"a">>})
    \/ deleteCredentialDelete(2)
    \/ CallGetCredentialsByIssuer(1)
    \/ listRead(1)
    \/ listReturn(1)

SpecListDelete == Init /\ [][NextListDelete]_vars

\* put and list by schema
NextSchema ==
    \/ CallStoreCredentialWith({<<"a">>}, {<<"x">>}, ListSubjects, ListSchemas,
                               {"di", "none"}, {FALSE})
    \/ CallGetCredentialsBySchema(1)
    \/ listRead(1)
    \/ listReturn(1)

SpecSchema == Init /\ [][NextSchema]_vars

\* request handlers that run transactions, issuances and reads concurrently
NextHandlers ==
    \/ \E h \in Handlers : ExecuteCall(h)
    \/ \E h \in Handlers : ExecuteBegin(h)
    \/ \E h \in Handlers : TxWrite(h)
    \/ \E h \in Handlers : TxPrepareIssue(h)
    \/ \E h \in Handlers : HandlerWriteMany(h)
    \/ \E h \in Handlers : ExecuteCommit(h)
    \/ \E h \in Handlers : ExecuteRollback(h)
    \/ CallRead

SpecHandlers == Init /\ [][NextHandlers]_vars

\* the same handlers, and issuances that open no transaction of their own
NextIssuers ==
    \/ NextHandlers
    \/ \E h \in Handlers : HandlerPrepareIssue(h)

SpecIssuers == Init /\ [][NextIssuers]_vars

\* the same with the scheduling of the Go runtime and of bbolt: a handler that
\* can take a step takes it, and a handler that waits for the writer lock
\* gets it if the lock is free again and again
SpecHandlersFair ==
    /\ Init
    /\ [][NextHandlers]_vars
    /\ \A h \in Handlers :
          /\ SF_vars(ExecuteBegin(h))
          /\ SF_vars(HandlerWriteMany(h) /\ proc.h[h].pc = "issuing")
          /\ WF_vars(ExecuteCommit(h) \/ ExecuteRollback(h))

\* the operations of the allocator, of the credential store and of the
\* lifecycle on one credential, and process starts
NextPool ==
    \/ Restart
    \/ CallNextIndex(1)
    \/ nextIndexReturn(1)
    \/ CallIncrement(1)
    \/ incrementWrite(1)
    \/ CallStoreCredentialOf({<<"a">>}, {<<"x">>}, {<<"k">>}, {"di", "none"}, {FALSE})
    \/ CallDeleteCredential(1, {<<"a">>})
    \/ deleteCredentialDelete(1)
    \/ CallIssue({<<"a">>}, {<<"x">>}, {<<"k">>}, BOOLEAN, 0..1)
    \/ CallRevoke({<<"a">>}, 0..1)

SpecPool == Init /\ [][NextPool]_vars

\* the prepared cursor increment, between other operations of the allocator
NextIncrement ==
    \/ CallGetIncrementWriteContext(1)
    \/ CallWriteIncrement(1)
    \/ CallNextIndex(1)
    \/ nextIndexReturn(1)
    \/ CallIncrement(1)
    \/ incrementWrite(1)
    \/ CallIssue(Ids, {<<"x">>}, {<<"k">>}, {TRUE}, {0})

SpecIncrement == Init /\ [][NextIncrement]_vars

\* updates of stored values with field maps
NextMerge ==
    \/ CallWrite({"ns"}, KVKeys, UpdateValues)
    \/ CallUpdate

SpecMerge == InitKV /\ [][NextMerge]_vars

\* batches whose slices have any lengths
SpecSlices == InitKV /\ [][CallWriteManySlices]_vars

\* loading the configuration
SpecConfig == Init /\ [][CallLoadConfig]_vars

----------------------------------------------------------------------------
(* Properties *)

Credentials == StoredCredentials(db, credentialNamespace)

StatusLists == StoredCredentials(db, statusListCredentialNamespace)

\* the stored credentials that carry a credentialStatus
Revocable == {c \in Credentials : ~c.Credential.nil /\ c.Credential.status # NoStatus}

\* C1: in every state reached by issue operations alone, two different
\* revocable credentials that reference the same status-list VC hold different
\* revocation indices, and each index is an element of the pool
C1_UniqueIndex ==
    \A c1, c2 \in Revocable :
        /\ \E i \in 1..Len(Pool(db)) : Pool(db)[i] = c1.Credential.status.index
        /\ (c1 # c2 /\ c1.Credential.status.list = c2.Credential.status.list)
               => c1.Credential.status.index # c2.Credential.status.index

\* two revocable credentials share one status-list VC
C1_Witness ==
    \E c1, c2 \in Revocable :
        c1 # c2 /\ c1.Credential.status.list = c2.Credential.status.list

\* the credential namespace holds a record of the credential id
HasRecord(d, id) ==
    \E sc \in StoredCredentials(d, credentialNamespace) : sc.CredentialID = id

\* C2: an issue step that succeeds for a revocable credential stores the
\* record and advances the cursor by one; an issue step that fails, also on a
\* failing write of the batch, leaves the database as it was: no record of the
\* credential, the cursor unchanged
C2_IssueAtomic ==
    [][last'.op = "issue" =>
         IF last'.err = "none"
         THEN /\ HasRecord(db', last'.id)
              /\ last'.index # 0 => Cursor(db') = Cursor(db) + 1
         ELSE /\ ~HasRecord(db', last'.id)
              /\ Cursor(db') = Cursor(db)
              /\ db' = db]_vars

\* an issue failed on a storage write after an earlier issue had succeeded
C2_Witness ==
    last.op = "issue" /\ last.err = "storage" /\ Cursor(db) = 1 /\ Revocable # {}

\* C3 as claimed: the bits that are 1 in a status-list VC are exactly the
\* revocation indices of the revoked credentials of the VC's issuer and schema
C3_BitsAreRevoked ==
    \A l \in StatusLists :
        l.Credential.encodedList =
            {c.Credential.status.index :
                c \in {r \in Revocable : r.Revoked /\ r.Issuer = l.Issuer
                                         /\ r.Schema = l.Schema}}

\* C6: a revoke(id) that directly follows a successful revoke(id) returns
\* success and changes nothing in the database, so the bitstring and the
\* revoked flag stay as the first revoke left them
C6_RevokeIdempotent ==
    [][(last'.op = "revoke" /\ last'.again) => (last'.err = "none" /\ db' = db)]_vars

\* the second of two consecutive revokes has run on a credential whose bit is set
C6_Witness ==
    /\ last.op = "revoke" /\ last.again /\ last.err = "none"
    /\ \E c \in Revocable, l \in StatusLists :
          c.Revoked /\ c.Credential.status.index \in l.Credential.encodedList

\* C4 as claimed: when the store holds one record of a credential id, get of
\* that id returns this record
C4_RoundTrip ==
    last.op = "get" =>
        \A r \in Credentials :
            (r.CredentialID = last.id
             /\ \A o \in Credentials : o.CredentialID = last.id => o = r)
                => (last.err = "none" /\ last.stored = r)

\* C5 as claimed: get returns not-found when no stored credential has the id,
\* and a record it returns has the id asked for
C5_GetExactId ==
    last.op = "get" =>
        /\ ~HasRecord(db, last.id) => last.err = "notfound"
        /\ last.err = "none" => last.stored.CredentialID = last.id

\* C7 as claimed: deleting an id that is not stored returns success and
\* leaves the store unchanged
C7_DeleteIdempotent ==
    [][(last'.op = "delete" /\ ~HasRecord(db, last'.id))
           => (last'.err = "none" /\ db' = db)]_vars

NoSigil(str) ==
    ~Contains(str, SigilIs) /\ ~Contains(str, SigilSu) /\ ~Contains(str, SigilSc)

\* C8 as claimed: each sigil occurs exactly once in the key, in the order
\* -is:, -su:, -sc:
C8_ExactlyThreeSigils ==
    probe.key # <<>> =>
        /\ Cardinality(Occurrences(probe.key, SigilIs)) = 1
        /\ Cardinality(Occurrences(probe.key, SigilSu)) = 1
        /\ Cardinality(Occurrences(probe.key, SigilSc)) = 1
        /\ \E i \in Occurrences(probe.key, SigilIs), j \in Occurrences(probe.key, SigilSu),
              k \in Occurrences(probe.key, SigilSc) : i < j /\ j < k

\* C8, amended: the key holds the three sigils in the order -is:, -su:, -sc:,
\* and when no argument contains a sigil each of them occurs exactly once
C8_SigilsInOrder ==
    probe.key # <<>> =>
        /\ \E i \in Occurrences(probe.key, SigilIs), j \in Occurrences(probe.key, SigilSu),
              k \in Occurrences(probe.key, SigilSc) : i < j /\ j < k
        /\ (NoSigil(probe.id) /\ NoSigil(probe.issuer) /\ NoSigil(probe.subject)
            /\ NoSigil(probe.schema))
               => /\ Cardinality(Occurrences(probe.key, SigilIs)) = 1
                  /\ Cardinality(Occurrences(probe.key, SigilSu)) = 1
                  /\ Cardinality(Occurrences(probe.key, SigilSc)) = 1

\* a key built from arguments without a sigil, two of them not empty and one
\* made of two fragments of a sigil
C8_Witness ==
    /\ probe.key # <<>> /\ probe.n = 2
    /\ probe.id = <<"-", "s">> /\ probe.issuer = <<"u", ":">>
    /\ NoSigil(probe.id) /\ NoSigil(probe.issuer)

\* C9 as claimed: initialization on a store that holds the pool and the
\* cursor leaves both unchanged
C9_InitOnce ==
    [][(last'.op = "init"
        /\ Read(db, statusListIndexNamespace, statusListIndexesKey) # Nil
        /\ Read(db, statusListIndexNamespace, currentListIndexKey) # Nil)
           => (Pool(db') = Pool(db) /\ Cursor(db') = Cursor(db))]_vars

\* C10 as claimed: no step lowers the cursor, a successful increment raises it
\* by one, and next_index returns the pool's element at the cursor
C10_CursorMonotonic ==
    [][/\ Cursor(db') >= Cursor(db)
       /\ (\E h \in Handlers : proc.h[h].pc = "incrementing" /\ proc'.h[h].pc = "idle"
                                 /\ last'.op = "increment" /\ last'.err = "none")
              => Cursor(db') = Cursor(db) + 1
       /\ (\E h \in Handlers : proc.h[h].pc = "next" /\ proc'.h[h].pc = "idle"
                                 /\ last'.op = "next" /\ last'.err = "none")
              => last'.index = Pool(db)[Cursor(db) + 1]]_vars

\* C11 as claimed: an increment whose result would exceed the pool length L
\* fails and leaves the cursor as it was, and the stored cursor never exceeds L
C11_IncrementExhausted ==
    [][/\ (\E h \in Handlers : proc.h[h].pc = "incrementing" /\ proc'.h[h].pc = "idle"
                                 /\ last'.op = "increment"
                                 /\ proc.h[h].wc.value
                                        = MarshalStatusListIndex(Cursor(db) + 1)
                                 /\ Cursor(db) + 1 > bitStringLength)
              => (last'.err # "none" /\ Cursor(db') = Cursor(db))
       /\ Cursor(db') <= bitStringLength]_vars

\* C12: next_index changes nothing in the database, and a next_index that
\* directly follows a successful next_index returns the same index
C12_NextIndexPureRead ==
    [][last'.op = "next" =>
          /\ db' = db
          /\ last'.again => (last'.err = "none" /\ last'.index = last.index)]_vars

\* next_index has been called twice in a row after the cursor had advanced
C12_Witness ==
    last.op = "next" /\ last.again /\ last.err = "none" /\ Cursor(db) = 1

\* the writes of a batch are in the database: every entry that no later entry
\* of the batch overwrites is stored
Stored(d, wcs) ==
    \A i \in 1..Len(wcs) :
        (\A j \in (i + 1)..Len(wcs) :
            wcs[j].namespace # wcs[i].namespace \/ wcs[j].key # wcs[i].key)
            => Read(d, wcs[i].namespace, wcs[i].key) = wcs[i].value

\* C13: an execute whose function returns an error or panics leaves the
\* store as it was before; an execute whose function returns success has all
\* the writes of the function in the store
C13_ExecuteRollback ==
    [][kv'.op = "execute" =>
          IF kv'.outcome = "ok"
          THEN ~kv'.err /\ Stored(db', kv'.batch)
          ELSE kv'.err /\ db' = db]_vars

\* a function that panicked after two writes, the first of them not in the store
C13_Witness ==
    /\ kv.op = "execute" /\ kv.outcome = "panic" /\ Len(kv.batch) = 2
    /\ Read(db, kv.batch[1].namespace, kv.batch[1].key) # kv.batch[1].value

\* C14: after write_many either every entry of the batch is stored, or, when
\* the write of an entry fails, the store is as before: none of the entries
\* before the failing one has been written
C14_WriteManyAtomic ==
    [][kv'.op = "writemany" =>
          /\ kv'.err <=> kv'.failAt \in 1..Len(kv'.batch)
          /\ IF kv'.err THEN db' = db ELSE Stored(db', kv'.batch)]_vars

\* a batch failed on its second entry and its first entry is not in the store
C14_Witness ==
    /\ kv.op = "writemany" /\ kv.err /\ kv.failAt = 2
    /\ Read(db, kv.batch[1].namespace, kv.batch[1].key) # kv.batch[1].value

\* C15: read returns nil when the namespace or the key is absent, read_prefix
\* an empty map when the namespace is absent or no key starts with the prefix,
\* read_all_keys no key when the namespace is absent; none returns an error
C15_ReadsReturnNull ==
    /\ (kv.op = "read" /\ (kv.ns \notin DOMAIN db \/ kv.key \notin Keys(db, kv.ns)))
           => (kv.result = Nil /\ ~kv.err)
    /\ (kv.op = "readprefix"
        /\ (kv.ns \notin DOMAIN db \/ \A k \in Keys(db, kv.ns) : ~HasPrefix(k, kv.prefix)))
           => (DOMAIN kv.result = {} /\ ~kv.err)
    /\ (kv.op = "keys" /\ (kv.ns \notin DOMAIN db \/ Keys(db, kv.ns) = {}))
           => (kv.result = {} /\ ~kv.err)

\* a prefix query found nothing in a namespace one of whose keys holds the
\* prefix further on
C15_Witness ==
    /\ kv.op = "readprefix" /\ DOMAIN kv.result = {}
    /\ \E k \in Keys(db, kv.ns) : Contains(k, kv.prefix)

\* C16 as claimed: a delete whose key is missing from its namespace, or whose
\* namespace does not exist, returns success and leaves the store unchanged
C16_DeleteAbsent ==
    [][(kv'.op = "delete" /\ (kv'.ns \notin DOMAIN db \/ kv'.key \notin Keys(db, kv'.ns)))
           => (~kv'.err /\ db' = db)]_vars

\* C17: an update_with_op that fails changes neither the value at (ns, key)
\* nor the operation at (op_ns, op_key), nor anything else in the store
C17_UpdateAtomic ==
    [][(kv'.op = "update" /\ kv'.err) =>
          /\ Read(db', kv'.ns, kv'.key) = Read(db, kv'.ns, kv'.key)
          /\ Read(db', kv'.opNs, kv'.opKey) = Read(db, kv'.opNs, kv'.opKey)
          /\ db' = db]_vars

\* an update_with_op failed on the operation after the update of the value
\* had been made in the transaction
C17_Witness ==
    kv.op = "update" /\ kv.err /\ kv.first # Nil /\ Read(db, kv.ns, kv.key) # kv.first

\* C18: a put of a record with neither a data-integrity credential (a
\* credential with a proof) nor a JWT returns an error and leaves the store
\* as it was
C18_PutRejectsNeither ==
    [][(last'.op = "store" /\ last'.form \in {"none", "unsigned"})
           => (last'.err # "none" /\ db' = db)]_vars

\* a record without either form has been put to a store that holds a record
C18_Witness ==
    /\ last.op = "store" /\ last.form = "none" /\ last.err = "invalid"
    /\ Credentials # {}

\* C19 as claimed: every record of the credential store has exactly one of
\* credential and token, and a record that get returns with a token has no
\* credential
C19_ExactlyOneForm ==
    /\ \A r \in Credentials : r.Credential.nil # r.CredentialJWT.nil
    /\ (last.op = "get" /\ last.err = "none" /\ ~last.stored.CredentialJWT.nil)
           => last.stored.Credential.nil

\* C20 as claimed: a list operation leaves out the records that fail to
\* decode, so that no zero-valued record is in its result (of a listing
\* during which nothing was written)
C20_ListSkipsUndecodable ==
    (kv.op = "list" /\ kv.undisturbed) =>
        \A i \in 1..Len(kv.result) : kv.result[i] # ZeroStoredCredential

\* the credentials that the credential namespace held when the list operation
\* kv read its keys
ListedFrom == StoredCredentials(kv.stored, credentialNamespace)

\* C21 as claimed: a list by schema returns exactly the stored credentials
\* whose schema is the schema asked for
C21_ListBySchemaExact ==
    kv.op = "listschema" =>
        {r.ID : r \in Range(kv.result)} = {r.ID : r \in {c \in ListedFrom : c.Schema = kv.schema}}

\* C21, amended: a list by schema returns, each once, exactly the stored
\* credentials whose compound key id-is:issuer-su:subject-sc:schema ends with
\* sc: followed by the schema asked for; every stored credential of that
\* schema is among them, and nothing is returned when no key ends that way
C21_ListBySchemaSuffix ==
    kv.op = "listschema" =>
        LET ending == <<"s", "c", ":">> \o kv.schema
            key(c) == createPrefixKey(c.CredentialID, c.Issuer, c.Subject, c.Schema)
        IN  /\ {r.ID : r \in Range(kv.result)}
                   = {c.ID : c \in {c \in ListedFrom : HasSuffix(key(c), ending)}}
            /\ \A c \in ListedFrom : c.Schema = kv.schema => c.ID \in {r.ID : r \in Range(kv.result)}
            /\ Len(kv.result) = Cardinality({r.ID : r \in Range(kv.result)})
            /\ (\A k \in Keys(kv.stored, credentialNamespace) : ~HasSuffix(k, ending))
                   => kv.result = <<>>

\* a list by the schema h-sc:k has returned two credentials: one of that
\* schema, and one of schema k whose subject sc:h makes its key end with it
C21_Witness ==
    /\ kv.op = "listschema"
    /\ kv.schema = <<"h", "-", "s", "c", ":", "k">>
    /\ Len(kv.result) = 2
    /\ \E i, j \in 1..2 :
          /\ kv.result[i].Schema = kv.schema
          /\ kv.result[j].Schema = <<"k">> /\ kv.result[j].Subject = <<"s", "c", ":", "h">>

\* C22 as claimed: a stored credential whose revoked flag is true keeps the
\* flag for as long as its record exists
C22_RevokedForever ==
    [][\A r \in Credentials : r.Revoked =>
          \A q \in StoredCredentials(db', credentialNamespace) :
              q.ID = r.ID => q.Revoked]_vars

\* C24 as claimed: no two status-list VCs have the same issuer and schema,
\* and every revocable credential references a stored status-list VC of its
\* own issuer and schema
C24_OneListPerIssuerSchema ==
    /\ \A l1, l2 \in StatusLists :
          (l1.Issuer = l2.Issuer /\ l1.Schema = l2.Schema) => l1 = l2
    /\ \A c \in Revocable :
          \E l \in StatusLists :
              /\ l.CredentialID = c.Credential.status.list
              /\ l.Issuer = c.Issuer /\ l.Schema = c.Schema

\* C28: when KEYSTORE_PASSWORD or DB_PASSWORD is set in the environment, the
\* configuration LoadConfig returns carries that value as the keystore
\* password, respectively as the password of the storage option, whether or
\* not a .env file exists
C28_EnvOverrides ==
    (cfg.op = "load" /\ cfg.err = "none") =>
        /\ KeystorePassword \in DOMAIN cfg.env =>
               cfg.config.ServiceKeyPassword = cfg.env[KeystorePassword]
        /\ DBPassword \in DOMAIN cfg.env =>
               /\ cfg.config.StorageOption.kind = "map"
               /\ "password" \in DOMAIN cfg.config.StorageOption.v
               /\ cfg.config.StorageOption.v["password"] = cfg.env[DBPassword]

\* C25: a transaction of execute whose cancellation handle fires before the
\* commit is rolled back, and none of its writes becomes visible
C25_CancelRollsBack ==
    [][(kv'.op = "execute" /\ kv'.ctx = "cancelled") => db' = db]_vars

\* C27: a revoke that returns an error (signing or a storage write failed, or
\* any other) leaves the database, so the revoked flag and the stored
\* status-list VCs, as it was; a revoke that succeeds leaves the credential
\* revoked and its index set in a stored status-list VC
C27_RevokeAllOrNothing ==
    [][last'.op = "revoke" =>
          IF last'.err = "none"
          THEN \A c \in StoredCredentials(db', credentialNamespace) :
                  c.CredentialID = last'.id =>
                      /\ c.Revoked
                      /\ \E l \in StoredCredentials(db', statusListCredentialNamespace) :
                            c.Credential.status.index \in l.Credential.encodedList
          ELSE db' = db]_vars

\* a revoke of a stored, active, revocable credential has failed on a write
C27_Witness ==
    /\ last.op = "revoke" /\ last.err = "storage"
    /\ \E c \in Revocable : c.CredentialID = last.id /\ ~c.Revoked

\* C23: a delete that succeeds removes the record of its credential and no
\* other, and leaves the status-list VCs, the index pool and the cursor as
\* they were; an issue never hands out the status entry (list and index) of a
\* credential that was deleted
C23_DeleteBurnsIndex ==
    [][/\ (last'.op = "delete" /\ last'.err = "none") =>
            /\ Bucket(db', statusListCredentialNamespace)
                   = Bucket(db, statusListCredentialNamespace)
            /\ Bucket(db', statusListIndexNamespace) = Bucket(db, statusListIndexNamespace)
            /\ StoredCredentials(db', credentialNamespace)
                   = {c \in StoredCredentials(db, credentialNamespace) :
                         c.CredentialID # last'.id}
       /\ (last'.op = "issue" /\ last'.err = "none") =>
            \A c \in StoredCredentials(db', credentialNamespace)
                      \ StoredCredentials(db, credentialNamespace) :
                c.Credential.status \notin deleted]_vars

\* C26: a read outside a transaction returns nothing or a value that a
\* committed transaction has written to its key: never a value that only an
\* open transaction holds, or that only transactions ended by a rollback
\* have written
C26_ReadCommitted ==
    (kv.op = "read" /\ kv.result # Nil) =>
        WriteContext(kv.ns, kv.key, kv.result) \in proc.committed

\* a read has returned a committed value for a key for which an open
\* transaction and a transaction that was rolled back hold another value
C26_Witness ==
    /\ kv.op = "read" /\ kv.result # Nil
    /\ proc.writer # 0
    /\ \E i \in 1..Len(proc.tx) :
          /\ proc.tx[i].namespace = kv.ns /\ proc.tx[i].key = kv.key
          /\ proc.tx[i].value # kv.result
    /\ \E w \in proc.rolledBack \ proc.committed :
          w.namespace = kv.ns /\ w.key = kv.key

C30_IssuanceCompletes ==
    \A h \in Handlers : (proc.h[h].pc = "issuing") ~> (proc.h[h].pc = "idle")

\* C31: in every state the stored index pool holds each integer of 1..L exactly
\* once, and no step other than an initialization changes it
C31_PoolIsPermutation ==
    /\ [](/\ Len(Pool(db)) = bitStringLength
          /\ Range(Pool(db)) = 1..bitStringLength)
    /\ [][last'.op # "init" => Pool(db') = Pool(db)]_vars

\* a credential has been issued and revoked, so the cursor has advanced and
\* the allocator, the store and the lifecycle have all acted on the database
C31_Witness ==
    /\ last.op = "revoke" /\ last.err = "none"
    /\ Cursor(db) > 0
    /\ \E c \in Revocable : c.Revoked

\* C38 as claimed: every element of the pool is a bit position of a bitstring
\* of length L, at least 0 and less than L
C38_IndicesAreBitPositions ==
    \A i \in 1..Len(Pool(db)) : 0 <= Pool(db)[i] /\ Pool(db)[i] < bitStringLength

\* C32: an issue of a non-revocable credential that succeeds adds one record to
\* the credential namespace and changes nothing else: the index pool, the
\* cursor and the status-list VCs are as before
C32_NonRevocableFrame ==
    [][(last'.op = "issue" /\ last'.err = "none" /\ last'.index = 0) =>
          /\ Bucket(db', statusListIndexNamespace) = Bucket(db, statusListIndexNamespace)
          /\ Bucket(db', statusListCredentialNamespace)
                 = Bucket(db, statusListCredentialNamespace)
          /\ Cardinality(Keys(db', credentialNamespace) \ Keys(db, credentialNamespace)) = 1
          /\ \A k \in Keys(db, credentialNamespace) :
                 Read(db', credentialNamespace, k) = Read(db, credentialNamespace, k)]_vars

\* a non-revocable credential has been issued after a revocable one, so there
\* are a cursor that has advanced and a status-list VC to be left alone
C32_Witness ==
    /\ last.op = "issue" /\ last.err = "none" /\ last.index = 0
    /\ Cursor(db) = 1
    /\ StatusLists # {}
    /\ \E c \in Credentials : c.CredentialID = last.id /\ c.Credential.status = NoStatus

\* C33: get_increment_write returns the write (status-list-index,
\* current-list-index, {index: cursor + 1}) for the cursor it read and leaves
\* the database unchanged; the cursor takes that value when the write
\* context is written
C33_IncrementDescriptor ==
    [][/\ kv'.op = "getincrement" =>
            /\ db' = db
            /\ ~kv'.err
            /\ kv'.wc = WriteContext(statusListIndexNamespace, currentListIndexKey,
                                     MarshalStatusListIndex(Cursor(db) + 1))
       /\ \A h \in Handlers :
            (proc.h[h].pc = "increment" /\ proc'.h[h].pc = "idle") =>
                /\ Read(db', statusListIndexNamespace, currentListIndexKey)
                       = proc.h[h].wc.value
                /\ \A ns \in DOMAIN db :
                       \A k \in Keys(db, ns) :
                           (ns # statusListIndexNamespace \/ k # currentListIndexKey)
                               => Read(db', ns, k) = Read(db, ns, k)]_vars

\* the write context was prepared at cursor 1 and has been written
C33_Witness ==
    last.op = "writeincrement" /\ last.err = "none" /\ Cursor(db) = 2

\* C34 as claimed: after a successful update of (ns, key) with a field map the
\* stored object is the previous object with each field of the map set to
\* the map's value and every other field unchanged, and no other key of the
\* database is modified
C34_UpdateMerges ==
    [][(kv'.op = "updatemap" /\ ~kv'.err) =>
          /\ Read(db, kv'.ns, kv'.key).kind = "object"
          /\ Read(db', kv'.ns, kv'.key)
                 = JSONObject(Merge(Read(db, kv'.ns, kv'.key).v, kv'.values))
          /\ \A ns \in KVNamespaces, key \in KVKeys :
                 (ns # kv'.ns \/ key # kv'.key) => Read(db', ns, key) = Read(db, ns, key)]_vars

\* C35 as claimed: a WriteMany whose namespaces, keys and values are not all of
\* the same length returns the error about the lengths and writes nothing
C35_UnequalLengths ==
    [][(/\ kv'.op = "writeslices"
        /\ ~(Len(kv'.namespaces) = Len(kv'.keys) /\ Len(kv'.keys) = Len(kv'.values)))
           => (kv'.err = "length" /\ db' = db)]_vars

\* C36 as claimed: every record returned by a listing by issuer has that issuer
\* and every record returned by a listing by subject has that subject (of
\* listings during which nothing was written)
C36_ListByFieldExact ==
    /\ (kv.op = "list" /\ kv.undisturbed) =>
          \A i \in 1..Len(kv.result) : kv.result[i].Issuer = kv.issuer
    /\ (kv.op = "listsubject" /\ kv.undisturbed) =>
          \A i \in 1..Len(kv.result) : kv.result[i].Subject = kv.subject

\* C37 as claimed: DeleteStatusListCredential(id) on a stored status-list
\* credential removes it, so that GetStatusListCredential(id) reports not found
C37_DeleteStatusList ==
    [][(/\ last'.op = "deletelist"
        /\ getCredential(db, last'.id, statusListCredentialNamespace).err = "none")
           => getCredential(db', last'.id, statusListCredentialNamespace).err = "notfound"]_vars

\* C39 as claimed: a listing by issuer during which a delete was committed
\* returns no empty (zero-valued) record; the puts of SpecListDelete store no
\* such record
C39_ListBesideDelete ==
    (kv.op = "list" /\ ~kv.undisturbed) =>
        \A i \in 1..Len(kv.result) : kv.result[i] # ZeroStoredCredential

====
